---- MODULE Spec2Model ----
(***************************************************************************)
(* A model of viz-buddy's two visualizer pages: the sorting visualizer     *)
(* (src/src/pages/SortingVisualizer.tsx) and the graph visualizer          *)
(* (src/unnamed/part_000).  Both pages run an async engine that mutates a  *)
(* model, publishes it with a React state setter and suspends in sleep();  *)
(* the code between two awaits runs to completion inside one browser task, *)
(* so one action of the model is one task: a click handler, or a timeout   *)
(* firing and the resumed engine running up to its next sleep (or to its   *)
(* return, followed by the continuation of the start handler).             *)
(*                                                                         *)
(* Array elements are JavaScript objects that the engine's array, the      *)
(* React state and the slices taken by merge() share by reference, so the  *)
(* model keeps a heap of element objects and arrays of references.         *)
(* Indices are the source's 0-based ones; At/Ref add one for TLA+.         *)
(***************************************************************************)
EXTENDS Integers, Sequences, FiniteSets, TLC

VARIABLES
  page,          \* which route is mounted: "sorting" or "graph"
  heap,          \* element objects: ref -> [value, id, isCompared, isSwapped, isSorted]
  array,         \* React state `array`: sequence of refs
  algorithm,     \* React state `algorithm`
  speed,         \* React state `speed[0]`, the speed level
  isRunning,     \* React state `isRunning` (drives the disabled guards)
  isRunningRef,  \* isRunningRef.current, the cancellation token
  animationRef,  \* pending timeout handles held in animationRef.current
  timeouts,      \* the browser's pending timeouts (one per suspended engine)
  engines,       \* run id -> suspended engine (locals, call stack)
  runs,          \* number of runs started so far
  toasts,        \* toast kinds raised since the last start request
  phase,         \* history: "idle", "running", "completed", "stopped"
  input,         \* history: the values of the array when the last run started
  marked,        \* history: ids of the elements seen marked sorted in the current run
  graph,         \* React state `graph`: the Graph Model, keys in Object.keys order
  nodes,         \* React state `nodes`
  edges,         \* React state `edges`
  startNode,     \* React state `startNode` ("" when none is selected)
  isDirected,    \* React state `isDirected`
  isWeighted,    \* React state `isWeighted`
  traversalOrder, \* React state `traversalOrder`
  insertions,    \* history: the adjacency lines the Graph Model was built from, in order
  limit          \* the bounds in force: [len, vals, runs, edges, lines, rows]; never changes

sortVars == <<heap, array>>
ctlVars == <<algorithm, isRunning, isRunningRef, animationRef, timeouts,
             engines, runs, toasts, phase, input, marked>>
graphVars == <<graph, nodes, edges, startNode, isDirected, isWeighted, traversalOrder,
               insertions>>
vars == <<page, limit, speed, sortVars, graphVars, ctlVars>>

(* ------------------------------ bounds -------------------------------- *)
MaxLen == 4      \* longest array of a single-run specification
NumValues == 3   \* distinct element values of a single-run specification
CtlLen == 2      \* longest array when runs are restarted
CtlValues == 2   \* distinct element values when runs are restarted
MaxRuns == 2     \* runs started in one behaviour
MaxPubs == 3     \* cap of the post-stop publish counter
MaxEdges == 4    \* most edges of a graph of the single-run family
MaxLines == 2    \* most lines of an adjacency-list text given to the parser
MaxRows == 3     \* most rows of an adjacency-matrix text given to the parser
LiveLen == 3     \* longest array of the runs that are never stopped
LiveValues == 2  \* distinct element values of the runs that are never stopped
LiveEdges == 2   \* most edges of a graph of the runs that are never stopped

MinValue == 10
MinSpeed == 1
MaxSpeed == 10
InitialSpeed == 5
SpeedLevels == MinSpeed..MaxSpeed
Values == MinValue..(MinValue + limit.vals - 1)

SortingAlgorithm == {"bubble", "selection", "insertion", "merge", "quick"}

(* ------------------------------ helpers ------------------------------- *)
Min(a, b) == IF a < b THEN a ELSE b

Range(s) == {s[x] : x \in DOMAIN s}

ArrayElement(v, id) ==
  [value |-> v, id |-> id, isCompared |-> FALSE, isSwapped |-> FALSE,
   isSorted |-> FALSE]

(* A call frame of an async function: the function, the block it resumes   *)
(* at, and its locals under the source's names (0 / <<>> when unused).     *)
Frame(fn) ==
  [fn |-> fn, pc |-> "entry", n |-> 0, i |-> 0, j |-> 0, k |-> 0,
   minIdx |-> 0, key |-> 0, left |-> 0, right |-> 0, mid |-> 0,
   leftArr |-> <<>>, rightArr |-> <<>>, low |-> 0, high |-> 0, pivot |-> 0,
   pivotIndex |-> 0]

Top(m) == m.stack[Len(m.stack)]
SetTop(m, f) == [m EXCEPT !.stack[Len(m.stack)] = f]
Goto(m, l) == [m EXCEPT !.stack[Len(m.stack)].pc = l]
Call(m, l, f) == [m EXCEPT !.stack = Append([m.stack EXCEPT ![Len(m.stack)].pc = l], f)]
Return(m, v) == [m EXCEPT !.stack = SubSeq(m.stack, 1, Len(m.stack) - 1), !.ret = v]

Ref(m, idx) == m.arr[idx + 1]
At(m, idx) == m.heap[m.arr[idx + 1]]
(* The element objects of array a as they are now.  An engine's write to   *)
(* an element object is seen through every array that holds the object:   *)
(* `altered` records that the array held by React since the last setArray *)
(* no longer reads as it did when it was published (`shown`).              *)
ContentsOf(h, a) == [x \in DOMAIN a |-> h[a[x]]]
(* An engine reads isRunningRef.current: `fresh` says that the engine was  *)
(* resumed from an await and has not read the token since, `observed`     *)
(* that it has read the token and found it inactive.                       *)
Tested(m) == [m EXCEPT !.fresh = FALSE, !.observed = @ \/ ~m.isRunningRef]
(* An engine writes to the array or its elements, or publishes: `blind`   *)
(* records a write or publish before the token was read after an await,   *)
(* `late` one after the token was found inactive.                          *)
Acted(m) == [m EXCEPT !.blind = @ \/ m.fresh, !.late = @ \/ m.observed]
Written(m) == Acted([m EXCEPT !.altered = @ \/ ContentsOf(m.heap, m.array) # m.shown])

SetCompared(m, ref, b) == Written([m EXCEPT !.heap[ref].isCompared = b])
SetSwapped(m, ref, b) == Written([m EXCEPT !.heap[ref].isSwapped = b])
SetSorted(m, ref, b) == Written([m EXCEPT !.heap[ref].isSorted = b])
SetAllSorted(m) ==
  Written([m EXCEPT !.heap = [r \in DOMAIN m.heap |->
                        IF r \in Range(m.arr) THEN [m.heap[r] EXCEPT !.isSorted = TRUE]
                        ELSE m.heap[r]]])
(* A swap that forgets the temporary: arr[a] = arr[b] only. *)
SwapOverwrites(m, a, b) == [m EXCEPT !.arr = [m.arr EXCEPT ![a + 1] = m.arr[b + 1]]]

Swap(m, a, b) ==
  Acted([m EXCEPT !.arr = [m.arr EXCEPT ![a + 1] = m.arr[b + 1], ![b + 1] = m.arr[a + 1]]])
Store(m, idx, ref) == Acted([m EXCEPT !.arr[idx + 1] = ref])
(* arr[idx] = { value: obj.value, isSwapped: true, ... }: the other flags lost *)
StoreSwappedFresh(m, idx, ref) ==
  [m EXCEPT !.heap = Append(m.heap, [ArrayElement(m.heap[ref].value, m.heap[ref].id)
                                       EXCEPT !.isSwapped = TRUE]),
            !.arr[idx + 1] = Len(m.heap) + 1]

(* arr[idx] = { ...obj, isSwapped: true }: a fresh object *)
StoreSwappedCopy(m, idx, ref) ==
  Acted([m EXCEPT !.heap = Append(m.heap, [m.heap[ref] EXCEPT !.isSwapped = TRUE]),
                  !.arr[idx + 1] = Len(m.heap) + 1])

(* A sleep whose promise is awaited with no timeout set to resolve it. *)
sleepUnarmed(ms, m, l) == [Goto(m, l) EXCEPT !.wait = TRUE, !.ms = ms]

(* sleep: setTimeout(resolve, ms) and animationRef.current.push(timeout);  *)
(* the caller's await suspends it until the timeout fires.                 *)
sleep(ms, m, l) ==
  [Goto(m, l) EXCEPT !.wait = TRUE,
                     !.ms = ms,
                     !.timeouts = m.timeouts \cup {m.run},
                     !.animationRef = m.animationRef \cup {m.run}]

(* updateArray: setArray([...newArray]); a shallow copy, the element       *)
(* objects stay shared.  pubs counts the publishes of a run after its stop.*)
updateArray(m) ==
  Acted([m EXCEPT !.array = m.arr,
                  !.shown = ContentsOf(m.heap, m.arr),
                  !.pubs = IF m.stopped THEN Min(m.pubs + 1, MaxPubs) ELSE m.pubs])

(* --------------------------- sorting engines -------------------------- *)
(* bubbleSort marking index i after pass i. *)
settledFromFront(n, i) == i

(* The index bubbleSort marks after pass i: arr[n - i - 1].isSorted = true. *)
settled(n, i) == n - i - 1

bubbleSort(m) ==
  LET f == Top(m)
      n == Len(m.arr)
      i == f.i
      j == f.j
  IN CASE f.pc = "entry" -> SetTop(m, [f EXCEPT !.i = 0, !.pc = "for_i"])
       [] f.pc = "for_i" ->
            IF i < n - 1 THEN SetTop(m, [f EXCEPT !.j = 0, !.pc = "for_j"])
            ELSE Goto(m, "end")
       [] f.pc = "for_j" ->
            IF j < n - i - 1
            THEN IF ~m.isRunningRef THEN Return(Tested(m), 0)
                 ELSE LET mt == Tested(m)
                      IN sleep(1100 - speed * 100, updateArray(SetCompared(SetCompared(mt, Ref(mt, j), TRUE),
                                                       Ref(mt, j + 1), TRUE)), "cmp")
            ELSE SetTop(updateArray(SetSorted(m, Ref(m, settled(n, i)), TRUE)),
                        [f EXCEPT !.i = i + 1, !.pc = "for_i"])
       [] f.pc = "cmp" ->
            IF At(m, j).value > At(m, j + 1).value
            THEN LET m1 == Swap(m, j, j + 1)
                     m2 == SetSwapped(SetSwapped(m1, Ref(m1, j), TRUE), Ref(m1, j + 1), TRUE)
                 IN sleep(1100 - speed * 100, updateArray(m2), "clear")
            ELSE Goto(m, "clear")
       [] f.pc = "clear" ->
            LET m1 == SetCompared(SetCompared(m, Ref(m, j), FALSE), Ref(m, j + 1), FALSE)
                m2 == SetSwapped(SetSwapped(m1, Ref(m, j), FALSE), Ref(m, j + 1), FALSE)
            IN SetTop(m2, [f EXCEPT !.j = j + 1, !.pc = "for_j"])
       [] f.pc = "end" ->
            Return(updateArray(SetSorted(m, Ref(m, 0), TRUE)), 0)

(* A selection of the largest element of the unsorted part. *)
isLarger(el, min) == el.value > min.value

(* selectionSort's test `arr[j].value < arr[minIdx].value`. *)
isSmaller(el, min) == el.value < min.value

selectionSort(m) ==
  LET f == Top(m)
      n == Len(m.arr)
      i == f.i
      j == f.j
      minIdx == f.minIdx
  IN CASE f.pc = "entry" -> SetTop(m, [f EXCEPT !.i = 0, !.pc = "for_i"])
       [] f.pc = "for_i" ->
            IF i < n - 1
            THEN SetTop(SetCompared(m, Ref(m, i), TRUE),
                        [f EXCEPT !.minIdx = i, !.j = i + 1, !.pc = "for_j"])
            ELSE Goto(m, "end")
       [] f.pc = "for_j" ->
            IF j < n
            THEN IF ~m.isRunningRef THEN Return(Tested(m), 0)
                 ELSE LET mt == Tested(m)
                      IN sleep(1100 - speed * 100, updateArray(SetCompared(mt, Ref(mt, j), TRUE)), "cmp")
            ELSE Goto(m, "swap")
       [] f.pc = "cmp" ->
            IF isSmaller(At(m, j), At(m, minIdx))
            THEN LET m1 == SetCompared(SetCompared(m, Ref(m, minIdx), FALSE), Ref(m, j), TRUE)
                 IN SetTop(updateArray(m1), [f EXCEPT !.minIdx = j, !.j = j + 1, !.pc = "for_j"])
            ELSE SetTop(updateArray(SetCompared(m, Ref(m, j), FALSE)),
                        [f EXCEPT !.j = j + 1, !.pc = "for_j"])
       [] f.pc = "swap" ->
            IF minIdx # i
            THEN LET m1 == Swap(m, i, minIdx)
                     m2 == SetSwapped(SetSwapped(m1, Ref(m1, i), TRUE), Ref(m1, minIdx), TRUE)
                 IN sleep(1100 - speed * 100, updateArray(m2), "unswap")
            ELSE Goto(m, "fin")
       [] f.pc = "unswap" -> Goto(SetSwapped(m, Ref(m, minIdx), FALSE), "fin")
       [] f.pc = "fin" ->
            LET m1 == SetSwapped(SetCompared(m, Ref(m, i), FALSE), Ref(m, i), FALSE)
                m2 == updateArray(SetSorted(m1, Ref(m, i), TRUE))
            IN SetTop(m2, [f EXCEPT !.i = i + 1, !.pc = "for_i"])
       [] f.pc = "end" ->
            Return(updateArray(SetSorted(m, Ref(m, n - 1), TRUE)), 0)

insertionSort(m) ==
  LET f == Top(m)
      i == f.i
      j == f.j
      key == f.key
  IN CASE f.pc = "entry" -> SetTop(m, [f EXCEPT !.i = 1, !.pc = "for_i"])
       [] f.pc = "for_i" ->
            IF i < Len(m.arr)
            THEN IF ~m.isRunningRef THEN Return(Tested(m), 0)
                 ELSE LET mt == Tested(m)
                          m1 == SetTop(mt, [f EXCEPT !.key = Ref(mt, i), !.j = i - 1])
                      IN sleep(1100 - speed * 100, updateArray(SetCompared(m1, Ref(mt, i), TRUE)), "while")
            ELSE Goto(m, "end")
       [] f.pc = "while" ->
            IF j >= 0 /\ At(m, j).value > m.heap[key].value
            THEN IF ~m.isRunningRef THEN Return(Tested(m), 0)
                 ELSE LET mt == Tested(m)
                          m1 == SetCompared(mt, Ref(mt, j), TRUE)
                          m2 == Store(m1, j + 1, Ref(m1, j))
                          m3 == SetSwapped(m2, Ref(m2, j + 1), TRUE)
                      IN sleep(1100 - speed * 100, updateArray(m3), "shifted")
            ELSE Goto(m, "place")
       [] f.pc = "shifted" ->
            LET m1 == SetSwapped(m, Ref(m, j + 1), FALSE)
                m2 == SetCompared(m1, Ref(m, j), FALSE)
            IN SetTop(m2, [f EXCEPT !.j = j - 1, !.pc = "while"])
       [] f.pc = "place" ->
            LET m1 == Store(m, j + 1, key)
                m2 == updateArray(SetCompared(m1, key, FALSE))
            IN SetTop(m2, [f EXCEPT !.i = i + 1, !.pc = "for_i"])
       [] f.pc = "end" -> Return(updateArray(SetAllSorted(m)), 0)

mergeSort(m) ==
  LET f == Top(m)
      left == f.left
      right == f.right
      mid == (left + right) \div 2
  IN CASE f.pc = "entry" ->
            IF left < right
            THEN Call(SetTop(m, [f EXCEPT !.mid = mid]), "after_left",
                      [Frame("mergeSort") EXCEPT !.left = left, !.right = mid])
            ELSE Return(m, 0)
       [] f.pc = "after_left" ->
            Call(m, "after_right",
                 [Frame("mergeSort") EXCEPT !.left = f.mid + 1, !.right = right])
       [] f.pc = "after_right" ->
            Call(m, "after_merge",
                 [Frame("merge") EXCEPT !.left = left, !.mid = f.mid, !.right = right])
       [] f.pc = "after_merge" -> Return(m, 0)

(* merge taking the left element only when it is strictly smaller. *)
takeLeftIfSmaller(l, r) == l.value < r.value

(* merge's test `leftArr[i].value <= rightArr[j].value`. *)
takeLeft(l, r) == l.value <= r.value

merge(m) ==
  LET f == Top(m)
      left == f.left
      right == f.right
      i == f.i
      j == f.j
      k == f.k
      leftArr == f.leftArr
      rightArr == f.rightArr
  IN CASE f.pc = "entry" ->
            IF ~m.isRunningRef THEN Return(Tested(m), 0)
            ELSE LET mt == Tested(m)
                 IN SetTop(mt, [f EXCEPT !.leftArr = SubSeq(mt.arr, left + 1, f.mid + 1),
                                        !.rightArr = SubSeq(mt.arr, f.mid + 2, right + 1),
                                        !.i = 0, !.j = 0, !.k = left, !.pc = "while_both"])
       [] f.pc = "while_both" ->
            IF i < Len(leftArr) /\ j < Len(rightArr)
            THEN IF ~m.isRunningRef THEN Return(Tested(m), 0)
                 ELSE LET mt == Tested(m)
                      IN sleep(1100 - speed * 100, updateArray(SetCompared(mt, Ref(mt, k), TRUE)), "take")
            ELSE Goto(m, "while_left")
       [] f.pc = "take" ->
            IF takeLeft(m.heap[leftArr[i + 1]], m.heap[rightArr[j + 1]])
            THEN LET m1 == StoreSwappedCopy(m, k, leftArr[i + 1])
                 IN sleep(1100 - speed * 100, updateArray(SetTop(m1, [f EXCEPT !.i = i + 1])), "taken")
            ELSE LET m1 == StoreSwappedCopy(m, k, rightArr[j + 1])
                 IN sleep(1100 - speed * 100, updateArray(SetTop(m1, [f EXCEPT !.j = j + 1])), "taken")
       [] f.pc = "taken" ->
            LET m1 == SetSwapped(SetCompared(m, Ref(m, k), FALSE), Ref(m, k), FALSE)
            IN SetTop(m1, [f EXCEPT !.k = k + 1, !.pc = "while_both"])
       [] f.pc = "while_left" ->
            IF i < Len(leftArr)
            THEN IF ~m.isRunningRef THEN Return(Tested(m), 0)
                 ELSE LET mt == Tested(m)
                      IN sleep(1100 - speed * 100, updateArray(StoreSwappedCopy(mt, k, leftArr[i + 1])), "left_taken")
            ELSE Goto(m, "while_right")
       [] f.pc = "left_taken" ->
            SetTop(SetSwapped(m, Ref(m, k), FALSE),
                   [f EXCEPT !.i = i + 1, !.k = k + 1, !.pc = "while_left"])
       [] f.pc = "while_right" ->
            IF j < Len(rightArr)
            THEN IF ~m.isRunningRef THEN Return(Tested(m), 0)
                 ELSE LET mt == Tested(m)
                      IN sleep(1100 - speed * 100, updateArray(StoreSwappedCopy(mt, k, rightArr[j + 1])), "right_taken")
            ELSE Goto(m, "mark")
       [] f.pc = "right_taken" ->
            SetTop(SetSwapped(m, Ref(m, k), FALSE),
                   [f EXCEPT !.j = j + 1, !.k = k + 1, !.pc = "while_right"])
       [] f.pc = "mark" ->
            IF left = 0 /\ right = Len(m.arr) - 1
            THEN Return(updateArray(SetAllSorted(m)), 0)
            ELSE Return(m, 0)

quickSort(m) ==
  LET f == Top(m)
      low == f.low
      high == f.high
  IN CASE f.pc = "entry" ->
            IF low < high
            THEN Call(m, "after_partition",
                      [Frame("partition") EXCEPT !.low = low, !.high = high])
            ELSE Goto(m, "mark")
       [] f.pc = "after_partition" ->
            Call(SetTop(m, [f EXCEPT !.pivotIndex = m.ret]), "after_low",
                 [Frame("quickSort") EXCEPT !.low = low, !.high = m.ret - 1])
       [] f.pc = "after_low" ->
            Call(m, "mark",
                 [Frame("quickSort") EXCEPT !.low = f.pivotIndex + 1, !.high = high])
       [] f.pc = "mark" ->
            IF low = 0 /\ high = Len(m.arr) - 1
            THEN Return(updateArray(SetAllSorted(m)), 0)
            ELSE Return(m, 0)

(* partition moving the elements that are not larger than the pivot. *)
notAbovePivot(el, pivot) == el.value <= pivot.value

(* partition's test `arr[j].value < pivot.value`. *)
belowPivot(el, pivot) == el.value < pivot.value

partition(m) ==
  LET f == Top(m)
      low == f.low
      high == f.high
      i == f.i
      j == f.j
      pivot == f.pivot
  IN CASE f.pc = "entry" ->
            IF ~m.isRunningRef THEN Return(Tested(m), low)
            ELSE LET mt == Tested(m)
                     m1 == SetTop(mt, [f EXCEPT !.pivot = Ref(mt, high)])
                 IN sleep(1100 - speed * 100, updateArray(SetCompared(m1, Ref(mt, high), TRUE)), "init")
       [] f.pc = "init" -> SetTop(m, [f EXCEPT !.i = low - 1, !.j = low, !.pc = "for_j"])
       [] f.pc = "for_j" ->
            IF j < high
            THEN IF ~m.isRunningRef THEN Return(Tested(m), low)
                 ELSE LET mt == Tested(m)
                      IN sleep(1100 - speed * 100, updateArray(SetCompared(mt, Ref(mt, j), TRUE)), "cmp")
            ELSE Goto(m, "place")
       [] f.pc = "cmp" ->
            IF belowPivot(At(m, j), m.heap[pivot])
            THEN LET m1 == Swap(SetTop(m, [f EXCEPT !.i = i + 1]), i + 1, j)
                     m2 == SetSwapped(SetSwapped(m1, Ref(m1, i + 1), TRUE), Ref(m1, j), TRUE)
                 IN sleep(1100 - speed * 100, updateArray(m2), "unswap")
            ELSE Goto(m, "uncmp")
       [] f.pc = "unswap" ->
            Goto(SetSwapped(SetSwapped(m, Ref(m, i), FALSE), Ref(m, j), FALSE), "uncmp")
       [] f.pc = "uncmp" ->
            SetTop(SetCompared(m, Ref(m, j), FALSE), [f EXCEPT !.j = j + 1, !.pc = "for_j"])
       [] f.pc = "place" ->
            LET m1 == Swap(m, i + 1, high)
                m2 == SetSwapped(SetSwapped(m1, Ref(m1, i + 1), TRUE), Ref(m1, high), TRUE)
            IN sleep(1100 - speed * 100, updateArray(m2), "placed")
       [] f.pc = "placed" ->
            LET m1 == SetSwapped(SetSwapped(m, Ref(m, i + 1), FALSE), Ref(m, high), FALSE)
            IN Return(updateArray(SetCompared(m1, pivot, FALSE)), i + 1)

(* One basic block of the engine on top of the call stack. *)
StepSort(m) ==
  CASE Top(m).fn = "bubbleSort" -> bubbleSort(m)
    [] Top(m).fn = "selectionSort" -> selectionSort(m)
    [] Top(m).fn = "insertionSort" -> insertionSort(m)
    [] Top(m).fn = "mergeSort" -> mergeSort(m)
    [] Top(m).fn = "merge" -> merge(m)
    [] Top(m).fn = "quickSort" -> quickSort(m)
    [] Top(m).fn = "partition" -> partition(m)

(* The engine runs until its next await of sleep() or until it returns. *)
RECURSIVE RunSort(_)
RunSort(m) == IF m.wait \/ m.stack = <<>> THEN m ELSE RunSort(StepSort(m))

(* ------------------- object identity and garbage ---------------------- *)
(* Unreachable element objects are dropped and the live ones renumbered    *)
(* in order of first reference, so that states differing only in garbage   *)
(* or in the numbering of the objects are one state.                       *)
RECURSIVE Dedup(_, _)
Dedup(s, seen) ==
  IF s = <<>> THEN <<>>
  ELSE IF Head(s) \in seen THEN Dedup(Tail(s), seen)
       ELSE <<Head(s)>> \o Dedup(Tail(s), seen \cup {Head(s)})

RECURSIVE FrameRefs(_)
FrameRefs(st) ==
  IF st = <<>> THEN <<>>
  ELSE Head(st).leftArr \o Head(st).rightArr \o <<Head(st).key, Head(st).pivot>>
       \o FrameRefs(Tail(st))

RECURSIVE EngineRefs(_, _)
EngineRefs(es, r) ==
  IF r = 0 THEN <<>>
  ELSE EngineRefs(es, r - 1)
       \o (IF r \in DOMAIN es THEN es[r].arr \o FrameRefs(es[r].stack) ELSE <<>>)

Compact(w) ==
  LET order == Dedup(w.array \o EngineRefs(w.engines, w.runs), {0})
      new(ref) == IF ref = 0 THEN 0 ELSE CHOOSE k \in DOMAIN order : order[k] = ref
      ren(s) == [x \in DOMAIN s |-> new(s[x])]
      renFrame(f) == [f EXCEPT !.leftArr = ren(f.leftArr), !.rightArr = ren(f.rightArr),
                               !.key = new(f.key), !.pivot = new(f.pivot)]
  IN [w EXCEPT !.heap = [k \in DOMAIN order |-> w.heap[order[k]]],
               !.array = ren(w.array),
               !.engines = [r \in DOMAIN w.engines |->
                              [w.engines[r] EXCEPT
                                 !.arr = ren(w.engines[r].arr),
                                 !.stack = [x \in DOMAIN w.engines[r].stack |->
                                              renFrame(w.engines[r].stack[x])]]]]

(* ----------------------- the sorting page's tasks --------------------- *)
(* The page's state as one record, and an engine loaded into it to run.    *)
World ==
  [heap |-> heap, array |-> array, isRunning |-> isRunning,
   isRunningRef |-> isRunningRef, animationRef |-> animationRef,
   timeouts |-> timeouts, engines |-> engines, runs |-> runs,
   toasts |-> toasts, phase |-> phase, input |-> input, marked |-> marked]

Load(w, r, e) ==
  [heap |-> w.heap, array |-> w.array, isRunning |-> w.isRunning,
   isRunningRef |-> w.isRunningRef, animationRef |-> w.animationRef,
   timeouts |-> w.timeouts, engines |-> w.engines, runs |-> w.runs,
   toasts |-> w.toasts, phase |-> w.phase, input |-> w.input, marked |-> w.marked,
   run |-> r, arr |-> e.arr, stack |-> e.stack, wait |-> e.wait, ms |-> e.ms,
   ret |-> e.ret, stopped |-> e.stopped, pubs |-> e.pubs,
   shown |-> e.shown, altered |-> e.altered,
   fresh |-> FALSE, blind |-> FALSE, observed |-> FALSE, late |-> FALSE]

Engine(m) ==
  [arr |-> m.arr, stack |-> m.stack, wait |-> m.wait, ms |-> m.ms, ret |-> m.ret,
   stopped |-> m.stopped, pubs |-> m.pubs, shown |-> m.shown, altered |-> m.altered]

(* What is left of a run whose timeout was cleared: its promise never      *)
(* resolves, so its locals are unreachable; only the pending await stays.  *)
Hung(e) ==
  [arr |-> <<>>, stack |-> <<>>, wait |-> TRUE, ms |-> 0, ret |-> 0,
   stopped |-> e.stopped, pubs |-> e.pubs, shown |-> <<>>, altered |-> e.altered]

(* The engine of run m.run is put back (suspended) or dropped (returned); *)
(* of a stopped run that returned, the publish count is kept.             *)
Unload(m) ==
  LET others == [x \in DOMAIN m.engines \ {m.run} |-> m.engines[x]]
      es == IF m.stack # <<>> THEN (m.run :> Engine(m)) @@ others
            ELSE IF m.stopped THEN (m.run :> [Hung(Engine(m)) EXCEPT !.wait = FALSE]) @@ others
            ELSE others
  IN Compact([heap |-> m.heap, array |-> m.array, isRunning |-> m.isRunning,
              isRunningRef |-> m.isRunningRef, animationRef |-> m.animationRef,
              timeouts |-> m.timeouts, engines |-> es, runs |-> m.runs,
              toasts |-> m.toasts, phase |-> m.phase, input |-> m.input,
              marked |-> m.marked])

Commit(w) ==
  /\ heap' = w.heap
  /\ array' = w.array
  /\ isRunning' = w.isRunning
  /\ isRunningRef' = w.isRunningRef
  /\ animationRef' = w.animationRef
  /\ timeouts' = w.timeouts
  /\ engines' = w.engines
  /\ runs' = w.runs
  /\ toasts' = w.toasts
  /\ phase' = w.phase
  /\ input' = w.input
  /\ marked' = w.marked

ValuesOf(h, a) == [x \in DOMAIN a |-> h[a[x]].value]

EntryFrame(alg) ==
  CASE alg = "bubble" -> Frame("bubbleSort")
    [] alg = "selection" -> Frame("selectionSort")
    [] alg = "insertion" -> Frame("insertionSort")
    [] alg = "merge" -> [Frame("mergeSort") EXCEPT !.left = 0, !.right = Len(array) - 1]
    [] alg = "quick" -> [Frame("quickSort") EXCEPT !.low = 0, !.high = Len(array) - 1]

SortedElements(h, a) == {h[a[x]].id : x \in {y \in DOMAIN a : h[a[y]].isSorted}}
Seen(before, w) == [w EXCEPT !.marked = before \cup SortedElements(w.heap, w.array)]

(* The history field `id` names the objects of the array a run starts     *)
(* from: each is numbered by the first index that holds it.                *)
Identified(h, a) ==
  [ref \in DOMAIN h |->
     IF ref \in Range(a)
     THEN [h[ref] EXCEPT !.id = CHOOSE x \in DOMAIN a :
                                  a[x] = ref /\ \A y \in 1..(x - 1) : a[y] # ref]
     ELSE h[ref]]

(* startSorting with a finally block that also clears the elements' flags. *)
startSortingDoneClearsFlags(m) ==
  IF m.stack # <<>> THEN m
  ELSE [m EXCEPT !.toasts = m.toasts \cup {"completed"},
                 !.isRunningRef = FALSE,
                 !.isRunning = FALSE,
                 !.phase = "completed",
                 !.heap = [r \in DOMAIN m.heap |->
                             [m.heap[r] EXCEPT !.isCompared = FALSE, !.isSwapped = FALSE,
                                               !.isSorted = FALSE]]]

(* startSorting after `await <engine>(arrayCopy)`: the toast and finally. *)
startSortingDone(m) ==
  IF m.stack # <<>> THEN m
  ELSE [m EXCEPT !.toasts = m.toasts \cup {"completed"},
                 !.isRunningRef = FALSE,
                 !.isRunning = FALSE,
                 !.phase = "completed"]

(* startSorting from the running flag to the token's activation: what     *)
(* the engine finds at its first step.                                     *)
startSortingSetup(w) ==
  [w EXCEPT !.isRunning = TRUE, !.isRunningRef = TRUE, !.runs = w.runs + 1,
            !.heap = Identified(w.heap, w.array),
            !.toasts = {}, !.phase = "running",
            !.input = ValuesOf(w.heap, w.array)]

(* The engine called by startSorting, run to its first await or its end. *)
startSortingEngine(w) ==
  LET w1 == startSortingSetup(w)
      e == [arr |-> w.array, stack |-> <<EntryFrame(algorithm)>>, wait |-> FALSE,
            ms |-> 0, ret |-> 0, stopped |-> FALSE, pubs |-> 0,
            shown |-> ContentsOf(w1.heap, w1.array), altered |-> FALSE]
  IN RunSort(Load(w1, w1.runs, e))

(* startSorting up to its first await. *)
startSortingBody(w) ==
  IF Len(w.array) = 0 THEN [w EXCEPT !.toasts = {"error"}]
  ELSE Seen({}, Unload(startSortingDone(startSortingEngine(w))))

(* startSorting behind a Start button that is not disabled while running. *)
startSortingWhileRunning ==
  /\ page = "sorting"
  /\ runs < limit.runs
  /\ Commit(startSortingBody(World))
  /\ UNCHANGED <<page, limit, speed, algorithm, graphVars>>

startSorting ==
  /\ page = "sorting"
  /\ ~isRunning
  /\ runs < limit.runs
  /\ Commit(startSortingBody(World))
  /\ UNCHANGED <<page, limit, speed, algorithm, graphVars>>

(* A timeout fires: resolve() resumes the engine that awaits it. *)
resolveEngine(w, r) ==
  LET w1 == [w EXCEPT !.timeouts = w.timeouts \ {r},
                      !.animationRef = w.animationRef \ {r}]
      m == [Load(w1, r, w.engines[r]) EXCEPT !.wait = FALSE, !.ms = 0, !.fresh = TRUE]
  IN RunSort(m)

resolveBody(w, r) == Seen(w.marked, Unload(startSortingDone(resolveEngine(w, r))))

resolve ==
  /\ page = "sorting"
  /\ \E r \in timeouts : Commit(resolveBody(World, r))
  /\ UNCHANGED <<page, limit, speed, algorithm, graphVars>>

(* stopSorting without the clearTimeout calls: the timeouts stay pending. *)
stopSortingKeepsTimeouts(w) ==
  LET remaining == w.timeouts
      n == Len(w.array)
  IN Compact([w EXCEPT
       !.timeouts = remaining,
       !.animationRef = {},
       !.isRunningRef = FALSE,
       !.isRunning = FALSE,
       !.heap = w.heap \o [x \in 1..n |->
                   [w.heap[w.array[x]] EXCEPT !.isCompared = FALSE, !.isSwapped = FALSE]],
       !.array = [x \in 1..n |-> Len(w.heap) + x],
       !.engines = [r \in DOMAIN w.engines |->
                      IF r \in remaining THEN [w.engines[r] EXCEPT !.stopped = TRUE]
                      ELSE Hung([w.engines[r] EXCEPT !.stopped = TRUE])],
       !.phase = "stopped"])

stopSortingBody(w) ==
  LET remaining == w.timeouts \ w.animationRef
      n == Len(w.array)
  IN Compact([w EXCEPT
       !.timeouts = remaining,
       !.animationRef = {},
       !.isRunningRef = FALSE,
       !.isRunning = FALSE,
       !.heap = w.heap \o [x \in 1..n |->
                   [w.heap[w.array[x]] EXCEPT !.isCompared = FALSE, !.isSwapped = FALSE]],
       !.array = [x \in 1..n |-> Len(w.heap) + x],
       !.engines = [r \in DOMAIN w.engines |->
                      IF r \in remaining THEN [w.engines[r] EXCEPT !.stopped = TRUE]
                      ELSE Hung([w.engines[r] EXCEPT !.stopped = TRUE])],
       !.phase = "stopped"])

stopSorting ==
  /\ page = "sorting"
  /\ isRunning
  /\ Commit(stopSortingBody(World))
  /\ UNCHANGED <<page, limit, speed, algorithm, graphVars>>

NewArray(vals) == [x \in DOMAIN vals |-> ArrayElement(vals[x], x)]

ArrayInputs == UNION {[1..n -> Values] : n \in 1..limit.len}

generateRandomArray ==
  /\ page = "sorting"
  /\ ~isRunning
  /\ runs < limit.runs
  /\ \E vals \in ArrayInputs :
       Commit(Compact([World EXCEPT !.heap = heap \o NewArray(vals),
                                    !.array = [x \in DOMAIN vals |-> Len(heap) + x],
                                    !.toasts = {},
                                    !.input = <<>>,
                                    !.marked = {}]))
  /\ UNCHANGED <<page, limit, speed, algorithm, graphVars>>

setAlgorithm ==
  /\ page = "sorting"
  /\ ~isRunning
  /\ runs < limit.runs
  /\ \E a \in SortingAlgorithm : algorithm' = a
  /\ UNCHANGED <<page, limit, speed, sortVars, graphVars, isRunning, isRunningRef, animationRef, timeouts,
                 engines, runs, toasts, phase, input, marked>>

(* ============================ graph page ============================== *)
(* A JavaScript object with string keys is a sequence of [key, val] in     *)
(* Object.keys order: keys that are array indices ("0", "1", ...) first,   *)
(* in ascending numeric order, then the other keys in insertion order.     *)
(* The node ids of the model are single characters.                        *)
IndexKeys == <<"0", "1", "2", "3", "4", "5", "6", "7", "8", "9">>
IsArrayIndex(k) == \E x \in DOMAIN IndexKeys : IndexKeys[x] = k
IndexOf(k) == CHOOSE x \in DOMAIN IndexKeys : IndexKeys[x] = k

ObjKeys(o) == [x \in DOMAIN o |-> o[x].key]
ObjHas(o, k) == \E x \in DOMAIN o : o[x].key = k
ObjGet(o, k) == o[CHOOSE x \in DOMAIN o : o[x].key = k].val
ObjSet(o, k, v) ==
  IF ObjHas(o, k)
  THEN [x \in DOMAIN o |-> IF o[x].key = k THEN [key |-> k, val |-> v] ELSE o[x]]
  ELSE IF IsArrayIndex(k)
       THEN LET before == Cardinality({x \in DOMAIN o :
                             IsArrayIndex(o[x].key) /\ IndexOf(o[x].key) < IndexOf(k)})
            IN SubSeq(o, 1, before) \o <<[key |-> k, val |-> v]>>
               \o SubSeq(o, before + 1, Len(o))
       ELSE Append(o, [key |-> k, val |-> v])

Infinity == 1000000
Undefined == 0 - 1 - Infinity

GraphAlgorithm == {"bfs", "dfs", "dijkstra", "bellman-ford"}

(* graph[node][to] = w for the listed (to, w), in the listed order. *)
RECURSIVE SetNeighbors(_, _, _)
SetNeighbors(g, node, nbrs) ==
  IF nbrs = <<>> THEN g
  ELSE SetNeighbors(ObjSet(g, node, ObjSet(ObjGet(g, node), Head(nbrs).id, Head(nbrs).w)),
                    node, Tail(nbrs))

(* The adjacency-list text is held split: one record per line with the     *)
(* number of its colon-delimited parts, the node of part 0 and the tokens  *)
(* of part 1, each [id, paren, w]: `id` alone (paren = "none"), `id(w)`    *)
(* with digits w (paren = "digits"), or `id(...)` otherwise ("other").     *)
Trimmed(tok) ==
  IF tok.paren = "none" THEN tok.id ELSE tok.id \o "(" \o ToString(tok.w) \o ")"

(* The [id, w] assignments `graph[node][id] = w` that one line performs. *)
RECURSIVE ParseNeighbors(_)
ParseNeighbors(toks) ==
  IF toks = <<>> THEN <<>>
  ELSE LET tok == Head(toks)
       IN (IF isWeighted /\ tok.paren # "none"
           THEN (IF tok.paren = "digits" THEN <<[id |-> tok.id, w |-> tok.w]>> ELSE <<>>)
           ELSE <<[id |-> Trimmed(tok), w |-> 1]>>)
          \o ParseNeighbors(Tail(toks))

RECURSIVE ParseLines(_)
ParseLines(lines) ==
  IF lines = <<>> THEN [ok |-> TRUE, lines |-> <<>>]
  ELSE LET line == Head(lines)
           rest == ParseLines(Tail(lines))
       IN IF line.parts # 2 \/ ~rest.ok THEN [ok |-> FALSE, lines |-> <<>>]
          ELSE [ok |-> TRUE,
                lines |-> <<[node |-> line.node, nbrs |-> ParseNeighbors(line.toks)]>>
                          \o rest.lines]

(* `if (!graph[node]) graph[node] = {}` and the assignments, line by line. *)
RECURSIVE GraphOf(_, _)
GraphOf(g, lines) ==
  IF lines = <<>> THEN g
  ELSE LET node == Head(lines).node
           g1 == IF ObjHas(g, node) THEN g ELSE ObjSet(g, node, <<>>)
       IN GraphOf(SetNeighbors(g1, node, Head(lines).nbrs), Tail(lines))

(* parseAdjacencyList passing over a line that does not split in two     *)
(* instead of throwing.                                                    *)
parseAdjacencyListSkipsMalformed(inputText) ==
  LET parsed == ParseLines(SelectSeq(inputText, LAMBDA line : line.parts = 2))
  IN [ok |-> parsed.ok, lines |-> parsed.lines, graph |-> GraphOf(<<>>, parsed.lines)]

parseAdjacencyList(inputText) ==
  LET parsed == ParseLines(inputText)
  IN [ok |-> parsed.ok, lines |-> parsed.lines, graph |-> GraphOf(<<>>, parsed.lines)]

(* The adjacency-matrix text is held split: the labels of line 0 and, for  *)
(* every further line, its cells after parseInt.  nodeLabels[j] beyond the *)
(* header is undefined, which as a property key is "undefined".            *)
LabelAt(nodeLabels, j) == IF j <= Len(nodeLabels) THEN nodeLabels[j] ELSE "undefined"

(* The [id, w] assignments `graph[fromNode][toNode] = w` of one row. *)
RECURSIVE ParseRow(_, _, _)
ParseRow(nodeLabels, row, j) ==
  IF j > Len(row) THEN <<>>
  ELSE (IF row[j] > 0
        THEN <<[id |-> LabelAt(nodeLabels, j), w |-> IF isWeighted THEN row[j] ELSE 1]>>
        ELSE <<>>)
       \o ParseRow(nodeLabels, row, j + 1)

(* Row i of the text belongs to nodeLabels[i - 1]; a row beyond the header *)
(* has fromNode undefined, and its first assignment throws a TypeError.    *)
RECURSIVE ParseRows(_, _, _)
ParseRows(nodeLabels, rows, i) ==
  IF i > Len(rows) THEN [ok |-> TRUE, lines |-> <<>>]
  ELSE LET nbrs == ParseRow(nodeLabels, rows[i], 1)
           rest == ParseRows(nodeLabels, rows, i + 1)
       IN IF i > Len(nodeLabels)
          THEN (IF nbrs # <<>> THEN [ok |-> FALSE, lines |-> <<>>] ELSE rest)
          ELSE IF ~rest.ok THEN rest
          ELSE [ok |-> TRUE,
                lines |-> <<[node |-> nodeLabels[i], nbrs |-> nbrs]>> \o rest.lines]

parseAdjacencyMatrix(inputText) ==
  LET nodeLabels == inputText.labels
      init == [x \in DOMAIN nodeLabels |-> [node |-> nodeLabels[x], nbrs |-> <<>>]]
      parsed == ParseRows(nodeLabels, inputText.rows, 1)
      lines == init \o parsed.lines
  IN [ok |-> parsed.ok, lines |-> IF parsed.ok THEN lines ELSE <<>>,
      graph |-> IF parsed.ok THEN GraphOf(<<>>, lines) ELSE <<>>]

RECURSIVE EdgesOf(_, _)
EdgesOf(g, x) ==
  IF x > Len(g) THEN <<>>
  ELSE [y \in DOMAIN g[x].val |->
          [from |-> g[x].key, to |-> g[x].val[y].key,
           weight |-> IF isWeighted THEN g[x].val[y].val ELSE Undefined,
           highlighted |-> FALSE]]
       \o EdgesOf(g, x + 1)

InitialDistance(id) ==
  IF algorithm \in {"dijkstra", "bellman-ford"}
  THEN (IF id = startNode THEN 0 ELSE Infinity)
  ELSE Undefined

createVisualizationNodes(graphData) ==
  [x \in DOMAIN graphData |->
     [id |-> graphData[x].key, visited |-> FALSE, current |-> FALSE, inQueue |-> FALSE,
      distance |-> InitialDistance(graphData[x].key)]]

createVisualizationEdges(graphData) == EdgesOf(graphData, 1)

(* ---------------------------- graph engines --------------------------- *)
(* sleep of the graph page with a delay that reaches 0 at the top speed. *)
sleepGraphFromThousand(m, l) ==
  LET delay == 1000 - speed * 100
  IN sleep(delay, m, l)

(* sleep of the graph page: the delay is computed inside. *)
sleepGraph(m, l) ==
  LET delay == 1100 - speed * 100
  IN sleep(delay, m, l)

GFrame(fn) ==
  [fn |-> fn, pc |-> "entry", current |-> "", keys |-> <<>>, idx |-> 0, i |-> 0,
   hasUpdate |-> FALSE, fi |-> 0]

Published(m) ==
  Acted([m EXCEPT !.pubs = IF m.stopped THEN Min(m.pubs + 1, MaxPubs) ELSE m.pubs])
setNodes(m, v) == Published([m EXCEPT !.nodes = v])
setEdges(m, v) == Published([m EXCEPT !.edges = v])
(* setTraversalOrder given the node just visited alone instead of [...order] *)
setTraversalOrderLast(m, v) ==
  Published([m EXCEPT !.traversalOrder = IF v = <<>> THEN v ELSE <<v[Len(v)]>>])
setTraversalOrder(m, v) == Published([m EXCEPT !.traversalOrder = v])

Highlight(es, from, to) ==
  [x \in DOMAIN es |->
     [es[x] EXCEPT !.highlighted =
        \/ (es[x].from = from /\ es[x].to = to)
        \/ (~isDirected /\ es[x].from = to /\ es[x].to = from)]]
(* A reset of the edges that rebuilds each edge with the default weight. *)
ClearHighlightAndWeight(es) ==
  [x \in DOMAIN es |-> [es[x] EXCEPT !.highlighted = FALSE, !.weight = 1]]

ClearHighlight(es) == [x \in DOMAIN es |-> [es[x] EXCEPT !.highlighted = FALSE]]

Includes(s, v) == \E x \in DOMAIN s : s[x] = v
Shown(d) == IF d = Infinity THEN Undefined ELSE d
DistanceOf(m, id) == IF id \in DOMAIN m.distances THEN Shown(m.distances[id]) ELSE Undefined
(* newDistance < distances[id]; false when distances[id] is undefined *)
Reached(m, id) == id \notin DOMAIN m.distances \/ m.distances[id] # Infinity
Improves(m, newDistance, id) == id \in DOMAIN m.distances /\ newDistance < m.distances[id]

(* bfs enqueueing every neighbour that is not visited yet. *)
toEnqueueIfUnvisited(m, neighbor) == neighbor \notin m.visited

(* bfs's test `!visited.has(neighbor) && !queue.includes(neighbor)`. *)
toEnqueue(m, neighbor) == neighbor \notin m.visited /\ ~Includes(m.queue, neighbor)

bfs(m) ==
  LET f == Top(m)
      current == f.current
  IN CASE f.pc = "entry" ->
            Goto([m EXCEPT !.queue = <<current>>, !.visited = {}, !.order = <<>>], "while")
       [] f.pc = "while" ->
            LET mt == IF m.queue # <<>> THEN Tested(m) ELSE m
            IN
            IF mt.queue # <<>> /\ mt.isRunningRef
            THEN LET cur == Head(mt.queue)
                     m1 == [mt EXCEPT !.queue = Tail(mt.queue)]
                 IN IF cur \in mt.visited THEN m1
                    ELSE LET m2 == [m1 EXCEPT !.visited = mt.visited \cup {cur},
                                              !.order = Append(mt.order, cur)]
                             m3 == setTraversalOrder(m2, m2.order)
                             m4 == setNodes(m3, [x \in DOMAIN m3.nodes |->
                                      [m3.nodes[x] EXCEPT
                                         !.current = (m3.nodes[x].id = cur),
                                         !.visited = (m3.nodes[x].id \in m2.visited)]])
                         IN sleepGraph(SetTop(m4, [f EXCEPT !.current = cur]), "after_visit")
            ELSE Return(mt, 0)
       [] f.pc = "after_visit" ->
            IF ObjHas(graph, current)
            THEN SetTop(m, [f EXCEPT !.keys = ObjKeys(ObjGet(graph, current)),
                                     !.idx = 0, !.pc = "for"])
            ELSE Goto(m, "finish")
       [] f.pc = "for" ->
            IF f.idx < Len(f.keys)
            THEN LET neighbor == f.keys[f.idx + 1]
                     next == [f EXCEPT !.idx = f.idx + 1]
                 IN IF toEnqueue(m, neighbor)
                    THEN LET m1 == [m EXCEPT !.queue = Append(m.queue, neighbor)]
                             m2 == setNodes(m1, [x \in DOMAIN m1.nodes |->
                                      [m1.nodes[x] EXCEPT !.inQueue =
                                         (m1.nodes[x].id = neighbor \/ m1.nodes[x].inQueue)]])
                             m3 == setEdges(m2, Highlight(m2.edges, current, neighbor))
                         IN sleepGraph(SetTop(m3, next), "for")
                    ELSE SetTop(m, next)
            ELSE Goto(m, "finish")
       [] f.pc = "finish" ->
            LET m1 == setNodes(m, [x \in DOMAIN m.nodes |->
                         [m.nodes[x] EXCEPT !.visited = (m.nodes[x].id \in m.visited),
                                            !.current = FALSE,
                                            !.inQueue = Includes(m.queue, m.nodes[x].id)]])
            IN Goto(setEdges(m1, ClearHighlight(m1.edges)), "while")

(* dfs recursing into every unvisited neighbour, whatever the token. *)
toVisitIfUnvisited(m, neighbor) == neighbor \notin m.visited

(* dfs's test `!visited.has(neighbor) && isRunningRef.current`. *)
toVisit(m, neighbor) == neighbor \notin m.visited /\ m.isRunningRef

dfs(m) ==
  LET f == Top(m)
      current == f.current
  IN CASE f.pc = "entry" ->
            LET mt == Tested(m)
            IN
            IF ~mt.isRunningRef \/ current \in mt.visited THEN Return(mt, 0)
            ELSE LET m1 == [mt EXCEPT !.visited = mt.visited \cup {current},
                                     !.order = Append(mt.order, current)]
                     m2 == setTraversalOrder(m1, m1.order)
                     m3 == setNodes(m2, [x \in DOMAIN m2.nodes |->
                              [m2.nodes[x] EXCEPT
                                 !.current = (m2.nodes[x].id = current),
                                 !.visited = (m2.nodes[x].id \in m1.visited)]])
                 IN sleepGraph(m3, "after_visit")
       [] f.pc = "after_visit" ->
            IF ObjHas(graph, current)
            THEN SetTop(m, [f EXCEPT !.keys = ObjKeys(ObjGet(graph, current)),
                                     !.idx = 0, !.pc = "for"])
            ELSE Goto(m, "unmark")
       [] f.pc = "for" ->
            IF f.idx < Len(f.keys)
            THEN LET neighbor == f.keys[f.idx + 1]
                     mt == IF neighbor \notin m.visited THEN Tested(m) ELSE m
                 IN IF toVisit(mt, neighbor)
                    THEN sleepGraph(setEdges(mt, Highlight(mt.edges, current, neighbor)), "recurse")
                    ELSE SetTop(mt, [f EXCEPT !.idx = f.idx + 1])
            ELSE Goto(m, "unmark")
       [] f.pc = "recurse" ->
            Call(m, "after_recursion", [GFrame("dfs") EXCEPT !.current = f.keys[f.idx + 1]])
       [] f.pc = "after_recursion" ->
            SetTop(setEdges(m, ClearHighlight(m.edges)),
                   [f EXCEPT !.idx = f.idx + 1, !.pc = "for"])
       [] f.pc = "unmark" ->
            Return(setNodes(m, [x \in DOMAIN m.nodes |->
                                  [m.nodes[x] EXCEPT !.current = FALSE]]), 0)

InitialDistances(startNodeId) ==
  [id \in Range(ObjKeys(graph)) |-> IF id = startNodeId THEN 0 ELSE Infinity]

WithDistances(m, ns) == [x \in DOMAIN ns |-> [ns[x] EXCEPT !.distance = DistanceOf(m, ns[x].id)]]

(* A selection that takes the last unvisited node of finite distance. *)
RECURSIVE PickAny(_, _, _, _)
PickAny(unvisited, distances, current, minDistance) ==
  IF unvisited = <<>> THEN current
  ELSE IF distances[Head(unvisited)] < Infinity
       THEN PickAny(Tail(unvisited), distances, Head(unvisited), distances[Head(unvisited)])
       ELSE PickAny(Tail(unvisited), distances, current, minDistance)

(* A selection that takes the last node of smallest distance: `<=`. *)
RECURSIVE PickMinLast(_, _, _, _)
PickMinLast(unvisited, distances, current, minDistance) ==
  IF unvisited = <<>> THEN current
  ELSE IF distances[Head(unvisited)] <= minDistance
       THEN PickMinLast(Tail(unvisited), distances, Head(unvisited),
                        distances[Head(unvisited)])
       ELSE PickMinLast(Tail(unvisited), distances, current, minDistance)

(* unvisited.forEach: the first node of strictly smallest distance below Infinity *)
RECURSIVE PickMin(_, _, _, _)
PickMin(unvisited, distances, current, minDistance) ==
  IF unvisited = <<>> THEN current
  ELSE IF distances[Head(unvisited)] < minDistance
       THEN PickMin(Tail(unvisited), distances, Head(unvisited), distances[Head(unvisited)])
       ELSE PickMin(Tail(unvisited), distances, current, minDistance)

Without(s, v) ==
  LET keep == {x \in DOMAIN s : s[x] # v}
      RECURSIVE Sel(_)
      Sel(x) == IF x > Len(s) THEN <<>>
                ELSE (IF x \in keep THEN <<s[x]>> ELSE <<>>) \o Sel(x + 1)
  IN Sel(1)

dijkstra(m) ==
  LET f == Top(m)
      current == f.current
  IN CASE f.pc = "entry" ->
            Goto([m EXCEPT !.distances = InitialDistances(current),
                           !.visited = {}, !.unvisited = ObjKeys(graph), !.order = <<>>],
                 "while")
       [] f.pc = "while" ->
            LET mt == IF m.unvisited # <<>> THEN Tested(m) ELSE m
            IN
            IF mt.unvisited # <<>> /\ mt.isRunningRef
            THEN LET cur == PickMin(mt.unvisited, mt.distances, "", Infinity)
                 IN IF cur = "" \/ mt.distances[cur] = Infinity THEN Return(mt, 0)
                    ELSE LET m1 == [mt EXCEPT !.unvisited = Without(mt.unvisited, cur),
                                             !.visited = mt.visited \cup {cur},
                                             !.order = Append(mt.order, cur)]
                             m2 == setTraversalOrder(m1, m1.order)
                             m3 == setNodes(m2, [x \in DOMAIN m2.nodes |->
                                      [m2.nodes[x] EXCEPT
                                         !.current = (m2.nodes[x].id = cur),
                                         !.visited = (m2.nodes[x].id \in m1.visited),
                                         !.distance = DistanceOf(m1, m2.nodes[x].id)]])
                         IN sleepGraph(SetTop(m3, [f EXCEPT !.current = cur]), "after_visit")
            ELSE Return(mt, 0)
       [] f.pc = "after_visit" ->
            IF ObjHas(graph, current)
            THEN SetTop(m, [f EXCEPT !.keys = ObjKeys(ObjGet(graph, current)),
                                     !.idx = 0, !.pc = "for"])
            ELSE Goto(m, "finish")
       [] f.pc = "for" ->
            IF f.idx < Len(f.keys)
            THEN LET neighbor == f.keys[f.idx + 1]
                     next == [f EXCEPT !.idx = f.idx + 1]
                     newDistance == m.distances[current] + ObjGet(ObjGet(graph, current), neighbor)
                 IN IF neighbor \notin m.visited /\ Improves(m, newDistance, neighbor)
                    THEN LET m1 == [m EXCEPT !.distances[neighbor] = newDistance]
                             m2 == setEdges(m1, Highlight(m1.edges, current, neighbor))
                             m3 == setNodes(m2, WithDistances(m2, m2.nodes))
                         IN sleepGraph(SetTop(m3, next), "for")
                    ELSE SetTop(m, next)
            ELSE Goto(m, "finish")
       [] f.pc = "finish" ->
            LET m1 == setNodes(m, [x \in DOMAIN m.nodes |->
                         [m.nodes[x] EXCEPT !.current = FALSE,
                                            !.distance = DistanceOf(m, m.nodes[x].id)]])
            IN Goto(setEdges(m1, ClearHighlight(m1.edges)), "while")

(* The test without `distances[from] !== Infinity`. *)
StillRelaxesFromUnreached(m) ==
  \E x \in DOMAIN graph :
    \E y \in DOMAIN graph[x].val :
      Improves(m, m.distances[graph[x].key] + graph[x].val[y].val, graph[x].val[y].key)

(* Some edge would still relax: the test of the negative-cycle pass. *)
StillRelaxes(m) ==
  \E x \in DOMAIN graph :
    /\ m.distances[graph[x].key] # Infinity
    /\ \E y \in DOMAIN graph[x].val :
         Improves(m, m.distances[graph[x].key] + graph[x].val[y].val, graph[x].val[y].key)

(* Every processed source node appended to the order again. *)
toAppendAlways(m, from) == TRUE

(* bellmanFord's test `!order.includes(from)`. *)
toAppend(m, from) == ~Includes(m.order, from)

(* A single relaxation round whatever the number of nodes. *)
singleRound(nodeIds) == 1

(* The bound of the outer loop: `nodeIds.length - 1` relaxation rounds. *)
relaxationRounds(nodeIds) == Len(nodeIds) - 1

bellmanFord(m) ==
  LET f == Top(m)
      nodeIds == ObjKeys(graph)
      from == nodeIds[f.fi + 1]
  IN CASE f.pc = "entry" ->
            LET m1 == [m EXCEPT !.distances = InitialDistances(f.current), !.order = <<>>]
                m2 == setNodes(m1, WithDistances(m1, m1.nodes))
            IN SetTop(m2, [f EXCEPT !.i = 0, !.pc = "for_i"])
       [] f.pc = "for_i" ->
            LET mt == IF f.i < relaxationRounds(nodeIds) THEN Tested(m) ELSE m
            IN
            IF f.i < relaxationRounds(nodeIds) /\ mt.isRunningRef
            THEN SetTop(mt, [f EXCEPT !.hasUpdate = FALSE, !.fi = 0, !.pc = "for_from"])
            ELSE Goto(mt, "check")
       [] f.pc = "for_from" ->
            IF f.fi < Len(nodeIds)
            THEN IF ~m.isRunningRef THEN Return(Tested(m), 0)
                 ELSE LET mt == Tested(m)
                          m1 == IF ~toAppend(mt, from) THEN mt
                                ELSE setTraversalOrder([mt EXCEPT !.order = Append(mt.order, from)],
                                                       Append(mt.order, from))
                          m2 == setNodes(m1, [x \in DOMAIN m1.nodes |->
                                   [m1.nodes[x] EXCEPT
                                      !.current = (m1.nodes[x].id = from),
                                      !.distance = DistanceOf(m1, m1.nodes[x].id),
                                      !.visited = Reached(m1, m1.nodes[x].id)]])
                      IN sleepGraph(m2, "relax")
            ELSE IF ~f.hasUpdate THEN Goto(m, "check")
                 ELSE SetTop(m, [f EXCEPT !.i = f.i + 1, !.pc = "for_i"])
       [] f.pc = "relax" ->
            IF ObjHas(graph, from) /\ m.distances[from] # Infinity
            THEN SetTop(m, [f EXCEPT !.keys = ObjKeys(ObjGet(graph, from)),
                                     !.idx = 0, !.pc = "for_to"])
            ELSE Goto(m, "clear")
       [] f.pc = "for_to" ->
            IF f.idx < Len(f.keys)
            THEN LET to == f.keys[f.idx + 1]
                     weight == ObjGet(ObjGet(graph, from), to)
                     newDistance == m.distances[from] + weight
                     next == [f EXCEPT !.idx = f.idx + 1]
                 IN IF Improves(m, newDistance, to)
                    THEN LET m1 == [m EXCEPT !.distances[to] = newDistance]
                             m2 == setEdges(m1, Highlight(m1.edges, from, to))
                             m3 == setNodes(m2, [x \in DOMAIN m2.nodes |->
                                      [m2.nodes[x] EXCEPT
                                         !.distance = DistanceOf(m1, m2.nodes[x].id),
                                         !.visited = Reached(m1, m2.nodes[x].id)]])
                         IN sleepGraph(SetTop(m3, [next EXCEPT !.hasUpdate = TRUE]), "for_to")
                    ELSE SetTop(m, next)
            ELSE Goto(m, "clear")
       [] f.pc = "clear" ->
            LET m1 == setNodes(m, [x \in DOMAIN m.nodes |->
                         [m.nodes[x] EXCEPT !.current = FALSE,
                                            !.distance = DistanceOf(m, m.nodes[x].id)]])
            IN SetTop(setEdges(m1, ClearHighlight(m1.edges)),
                      [f EXCEPT !.fi = f.fi + 1, !.pc = "for_from"])
       [] f.pc = "check" ->
            LET mt == IF nodeIds # <<>> THEN Tested(m) ELSE m
            IN
            IF nodeIds = <<>> \/ ~mt.isRunningRef THEN Return(mt, 0)
            ELSE IF StillRelaxes(mt)
                 THEN Return([mt EXCEPT !.toasts = mt.toasts \cup {"negative-cycle"}], 0)
                 ELSE Return(mt, 0)

StepGraph(m) ==
  CASE Top(m).fn = "bfs" -> bfs(m)
    [] Top(m).fn = "dfs" -> dfs(m)
    [] Top(m).fn = "dijkstra" -> dijkstra(m)
    [] Top(m).fn = "bellmanFord" -> bellmanFord(m)

RECURSIVE RunGraph(_)
RunGraph(m) == IF m.wait \/ m.stack = <<>> THEN m ELSE RunGraph(StepGraph(m))

(* ------------------------ the graph page's tasks ---------------------- *)
GraphWorld ==
  [nodes |-> nodes, edges |-> edges, traversalOrder |-> traversalOrder,
   isRunning |-> isRunning, isRunningRef |-> isRunningRef,
   animationRef |-> animationRef, timeouts |-> timeouts, engines |-> engines,
   runs |-> runs, toasts |-> toasts, phase |-> phase]

LoadGraph(w, r, e) ==
  [nodes |-> w.nodes, edges |-> w.edges, traversalOrder |-> w.traversalOrder,
   isRunning |-> w.isRunning, isRunningRef |-> w.isRunningRef,
   animationRef |-> w.animationRef, timeouts |-> w.timeouts, engines |-> w.engines,
   runs |-> w.runs, toasts |-> w.toasts, phase |-> w.phase,
   run |-> r, stack |-> e.stack, wait |-> e.wait, ms |-> e.ms, ret |-> e.ret,
   stopped |-> e.stopped, pubs |-> e.pubs, queue |-> e.queue, visited |-> e.visited,
   order |-> e.order, distances |-> e.distances, unvisited |-> e.unvisited,
   fresh |-> FALSE, blind |-> FALSE, observed |-> FALSE, late |-> FALSE]

GraphEngine(m) ==
  [stack |-> m.stack, wait |-> m.wait, ms |-> m.ms, ret |-> m.ret, stopped |-> m.stopped,
   pubs |-> m.pubs, queue |-> m.queue, visited |-> m.visited, order |-> m.order,
   distances |-> m.distances, unvisited |-> m.unvisited]

NewGraphEngine(f) ==
  [stack |-> <<f>>, wait |-> FALSE, ms |-> 0, ret |-> 0, stopped |-> FALSE, pubs |-> 0,
   queue |-> <<>>, visited |-> {}, order |-> <<>>, distances |-> <<>>,
   unvisited |-> <<>>]

HungGraph(e) ==
  [NewGraphEngine(GFrame("")) EXCEPT !.stack = <<>>, !.wait = TRUE,
                                     !.stopped = e.stopped, !.pubs = e.pubs]

UnloadGraph(m) ==
  LET others == [x \in DOMAIN m.engines \ {m.run} |-> m.engines[x]]
      es == IF m.stack # <<>> THEN (m.run :> GraphEngine(m)) @@ others
            ELSE IF m.stopped
                 THEN (m.run :> [HungGraph(GraphEngine(m)) EXCEPT !.wait = FALSE]) @@ others
            ELSE others
  IN [nodes |-> m.nodes, edges |-> m.edges, traversalOrder |-> m.traversalOrder,
      isRunning |-> m.isRunning, isRunningRef |-> m.isRunningRef,
      animationRef |-> m.animationRef, timeouts |-> m.timeouts, engines |-> es,
      runs |-> m.runs, toasts |-> m.toasts, phase |-> m.phase]

CommitGraph(w) ==
  /\ nodes' = w.nodes
  /\ edges' = w.edges
  /\ traversalOrder' = w.traversalOrder
  /\ isRunning' = w.isRunning
  /\ isRunningRef' = w.isRunningRef
  /\ animationRef' = w.animationRef
  /\ timeouts' = w.timeouts
  /\ engines' = w.engines
  /\ runs' = w.runs
  /\ toasts' = w.toasts
  /\ phase' = w.phase

GraphEntryFrame(alg) ==
  CASE alg = "bfs" -> [GFrame("bfs") EXCEPT !.current = startNode]
    [] alg = "dfs" -> [GFrame("dfs") EXCEPT !.current = startNode]
    [] alg = "dijkstra" -> [GFrame("dijkstra") EXCEPT !.current = startNode]
    [] alg = "bellman-ford" -> [GFrame("bellmanFord") EXCEPT !.current = startNode]

(* startVisualization after `await <engine>(startNode)`: toast and finally. *)
startVisualizationDone(m) ==
  IF m.stack # <<>> THEN m
  ELSE [m EXCEPT !.toasts = IF m.isRunningRef THEN m.toasts \cup {"completed"}
                            ELSE m.toasts,
                 !.phase = IF m.isRunningRef THEN "completed" ELSE m.phase,
                 !.isRunning = FALSE,
                 !.isRunningRef = FALSE]

(* startVisualization from the token's activation to the reset of the     *)
(* visual state: what the engine finds at its first step.                  *)
startVisualizationSetup(w) ==
  [w EXCEPT
     !.isRunningRef = TRUE,
     !.isRunning = TRUE,
     !.traversalOrder = <<>>,
     !.nodes = [x \in DOMAIN w.nodes |->
                  [w.nodes[x] EXCEPT !.visited = FALSE, !.current = FALSE,
                     !.inQueue = FALSE,
                     !.distance = InitialDistance(w.nodes[x].id)]],
     !.edges = ClearHighlight(w.edges),
     !.runs = w.runs + 1, !.toasts = {}, !.phase = "running"]

(* startVisualization calling the engine with the order shown so far      *)
(* instead of an empty one.                                                *)
startVisualizationKeepsOrder(w) ==
  IF startNode = "" \/ Len(graph) = 0 THEN [w EXCEPT !.toasts = {"error"}]
  ELSE LET w1 == startVisualizationSetup(w)
           e == [NewGraphEngine(GraphEntryFrame(algorithm)) EXCEPT
                   !.order = w.traversalOrder]
       IN UnloadGraph(startVisualizationDone(RunGraph(LoadGraph(w1, w1.runs, e))))

(* startVisualization without its test of the start node and the graph. *)
startVisualizationUnguarded(w) ==
  LET w1 == startVisualizationSetup(w)
      e == NewGraphEngine(GraphEntryFrame(algorithm))
  IN UnloadGraph(startVisualizationDone(RunGraph(LoadGraph(w1, w1.runs, e))))

(* The engine called by startVisualization, run to its first await or    *)
(* its end.                                                                *)
startVisualizationEngine(w) ==
  LET w1 == startVisualizationSetup(w)
      e == NewGraphEngine(GraphEntryFrame(algorithm))
  IN RunGraph(LoadGraph(w1, w1.runs, e))

(* startVisualization up to its first await. *)
startVisualizationBody(w) ==
  IF startNode = "" \/ Len(graph) = 0 THEN [w EXCEPT !.toasts = {"error"}]
  ELSE UnloadGraph(startVisualizationDone(startVisualizationEngine(w)))

startVisualization ==
  /\ page = "graph"
  /\ ~isRunning /\ Len(nodes) # 0
  /\ runs < limit.runs
  /\ CommitGraph(startVisualizationBody(GraphWorld))
  /\ UNCHANGED <<page, limit, speed, algorithm, input, marked, sortVars, graph, startNode, isDirected,
                 isWeighted, insertions>>

resolveGraphEngine(w, r) ==
  LET w1 == [w EXCEPT !.timeouts = w.timeouts \ {r},
                      !.animationRef = w.animationRef \ {r}]
      m == [LoadGraph(w1, r, w.engines[r]) EXCEPT !.wait = FALSE, !.ms = 0,
                                                  !.fresh = TRUE]
  IN RunGraph(m)

resolveGraphBody(w, r) ==
  UnloadGraph(startVisualizationDone(resolveGraphEngine(w, r)))

resolveGraph ==
  /\ page = "graph"
  /\ \E r \in timeouts : CommitGraph(resolveGraphBody(GraphWorld, r))
  /\ UNCHANGED <<page, limit, speed, algorithm, input, marked, sortVars, graph, startNode, isDirected,
                 isWeighted, insertions>>

(* stopVisualization without the three resets of the visual state. *)
stopVisualizationKeepsFlags(w) ==
  LET remaining == w.timeouts \ w.animationRef
  IN [w EXCEPT
       !.timeouts = remaining,
       !.animationRef = {},
       !.isRunning = FALSE,
       !.isRunningRef = FALSE,
       !.engines = [r \in DOMAIN w.engines |->
                      IF r \in remaining THEN [w.engines[r] EXCEPT !.stopped = TRUE]
                      ELSE HungGraph([w.engines[r] EXCEPT !.stopped = TRUE])],
       !.phase = "stopped"]

(* stopVisualization without the clearTimeout calls. *)
stopVisualizationKeepsTimeouts(w) ==
  LET remaining == w.timeouts
  IN [w EXCEPT
       !.timeouts = remaining,
       !.animationRef = {},
       !.isRunning = FALSE,
       !.isRunningRef = FALSE,
       !.nodes = [x \in DOMAIN w.nodes |->
                    [w.nodes[x] EXCEPT !.visited = FALSE, !.current = FALSE,
                                       !.inQueue = FALSE]],
       !.edges = ClearHighlight(w.edges),
       !.traversalOrder = <<>>,
       !.engines = [r \in DOMAIN w.engines |->
                      IF r \in remaining THEN [w.engines[r] EXCEPT !.stopped = TRUE]
                      ELSE HungGraph([w.engines[r] EXCEPT !.stopped = TRUE])],
       !.phase = "stopped"]

stopVisualizationBody(w) ==
  LET remaining == w.timeouts \ w.animationRef
  IN [w EXCEPT
       !.timeouts = remaining,
       !.animationRef = {},
       !.isRunning = FALSE,
       !.isRunningRef = FALSE,
       !.nodes = [x \in DOMAIN w.nodes |->
                    [w.nodes[x] EXCEPT !.visited = FALSE, !.current = FALSE,
                                       !.inQueue = FALSE]],
       !.edges = ClearHighlight(w.edges),
       !.traversalOrder = <<>>,
       !.engines = [r \in DOMAIN w.engines |->
                      IF r \in remaining THEN [w.engines[r] EXCEPT !.stopped = TRUE]
                      ELSE HungGraph([w.engines[r] EXCEPT !.stopped = TRUE])],
       !.phase = "stopped"]

stopVisualization ==
  /\ page = "graph"
  /\ isRunning
  /\ CommitGraph(stopVisualizationBody(GraphWorld))
  /\ UNCHANGED <<page, limit, speed, algorithm, input, marked, sortVars, graph, startNode, isDirected,
                 isWeighted, insertions>>

(* Adjacency-list texts typed into the input box, split as described at   *)
(* parseAdjacencyList.                                                    *)
Tok(id) == [id |-> id, paren |-> "none", w |-> 0]
TokW(id, w) == [id |-> id, paren |-> IF w >= 0 THEN "digits" ELSE "other", w |-> w]
Line(node, toks) == [parts |-> 2, node |-> node, toks |-> toks]
NoColon == [parts |-> 1, node |-> "", toks |-> <<>>]
TwoColons == [parts |-> 3, node |-> "", toks |-> <<>>]

InputTexts ==
  { <<Line("A", <<Tok("B")>>), Line("B", <<Tok("A")>>)>>,
    <<Line("A", <<TokW("B", 2), TokW("2", 1)>>), Line("2", <<TokW("B", 0)>>)>>,
    <<Line("A", <<Tok("B")>>), NoColon>>,
    <<TwoColons>>,
    <<Line("", <<Tok("B")>>)>> }

(* Texts of up to limit.lines lines, and matrices of up to limit.rows rows *)
(* under the header A,B, for the runs of the parsers alone.                *)
LineCases ==
  { Line("A", <<Tok("B")>>), Line("B", <<TokW("A", 2)>>), Line("", <<Tok("B")>>),
    NoColon, TwoColons }
RowCases == { <<0, 2>>, <<2>>, <<0, 2, 2>>, <<0, 0, 0>> }
Matrix(labels, rows) == [labels |-> labels, rows |-> rows]

ListTexts ==
  IF limit.lines = 0 THEN InputTexts
  ELSE UNION {[1..k -> LineCases] : k \in 1..limit.lines}
MatrixTexts ==
  {Matrix(<<"A", "B">>, rows) : rows \in UNION {[1..k -> RowCases] : k \in 1..limit.rows}}

InputMode == {"adjacency-list", "adjacency-matrix"}

(* generateGraph: what the handler leaves in the component's state. *)
generateGraphBody(inputMode, inputText) ==
  LET parsed == IF inputMode = "adjacency-list"
                THEN parseAdjacencyList(inputText)
                ELSE parseAdjacencyMatrix(inputText)
  IN IF parsed.ok
     THEN [graph |-> parsed.graph,
           insertions |-> parsed.lines,
           nodes |-> createVisualizationNodes(parsed.graph),
           edges |-> createVisualizationEdges(parsed.graph),
           startNode |-> IF Len(parsed.graph) > 0 THEN parsed.graph[1].key
                         ELSE startNode,
           toasts |-> {"generated"}]
     ELSE [graph |-> graph, insertions |-> insertions, nodes |-> nodes, edges |-> edges,
           startNode |-> startNode, toasts |-> {"parse-error"}]

generateGraph ==
  /\ page = "graph"
  /\ ~isRunning
  /\ runs < limit.runs
  /\ \E inputMode \in InputMode :
     \E inputText \in IF inputMode = "adjacency-list" THEN ListTexts ELSE MatrixTexts :
       LET w == generateGraphBody(inputMode, inputText)
       IN /\ graph' = w.graph
          /\ insertions' = w.insertions
          /\ nodes' = w.nodes
          /\ edges' = w.edges
          /\ startNode' = w.startNode
          /\ toasts' = w.toasts
  /\ UNCHANGED <<page, limit, speed, sortVars, algorithm, isRunning, isRunningRef, animationRef,
                 timeouts, engines, runs, phase, input, marked, isDirected,
                 isWeighted,
                 traversalOrder>>

setGraphAlgorithm ==
  /\ page = "graph"
  /\ ~isRunning
  /\ runs < limit.runs
  /\ \E a \in GraphAlgorithm : algorithm' = a
  /\ UNCHANGED <<page, limit, speed, sortVars, graphVars, isRunning, isRunningRef, animationRef,
                 timeouts, engines, runs, toasts, phase, input, marked>>

setStartNode ==
  /\ page = "graph"
  /\ ~isRunning
  /\ runs < limit.runs
  /\ \E x \in DOMAIN nodes : startNode' = nodes[x].id
  /\ UNCHANGED <<page, limit, speed, sortVars, ctlVars, graph, nodes, edges, isDirected,
                 isWeighted, traversalOrder, insertions>>

setIsDirected ==
  /\ page = "graph"
  /\ ~isRunning
  /\ runs < limit.runs
  /\ \E b \in BOOLEAN : isDirected' = b
  /\ UNCHANGED <<page, limit, speed, sortVars, ctlVars, graph, nodes, edges, startNode,
                 isWeighted, traversalOrder, insertions>>

setIsWeighted ==
  /\ page = "graph"
  /\ ~isRunning
  /\ runs < limit.runs
  /\ \E b \in BOOLEAN : isWeighted' = b
  /\ UNCHANGED <<page, limit, speed, sortVars, ctlVars, graph, nodes, edges, startNode,
                 isDirected, traversalOrder, insertions>>

(* The speed slider, disabled while a run is active. *)
setSpeed ==
  /\ ~isRunning
  /\ \E s \in SpeedLevels : speed' = s
  /\ UNCHANGED <<page, limit, sortVars, graphVars, ctlVars>>

InitPage ==
  /\ speed = InitialSpeed
  /\ heap = <<>>
  /\ array = <<>>
  /\ algorithm = IF page = "sorting" THEN "bubble" ELSE "bfs"
  /\ isRunning = FALSE
  /\ isRunningRef = FALSE
  /\ animationRef = {}
  /\ timeouts = {}
  /\ engines = <<>>
  /\ runs = 0
  /\ toasts = {}
  /\ phase = "idle"
  /\ input = <<>>
  /\ marked = {}
  /\ graph = <<>>
  /\ nodes = <<>>
  /\ edges = <<>>
  /\ startNode = ""
  /\ isDirected = FALSE
  /\ isWeighted = FALSE
  /\ traversalOrder = <<>>
  /\ insertions = <<>>

Next ==
  \/ generateRandomArray
  \/ setAlgorithm
  \/ startSorting
  \/ resolve
  \/ stopSorting
  \/ generateGraph
  \/ setGraphAlgorithm
  \/ setStartNode
  \/ setIsDirected
  \/ setIsWeighted
  \/ startVisualization
  \/ resolveGraph
  \/ stopVisualization

Init ==
  /\ page \in {"sorting", "graph"}
  /\ limit = [len |-> CtlLen, vals |-> CtlValues, runs |-> MaxRuns, edges |-> 0,
             lines |-> 0, rows |-> 0]
  /\ InitPage

Spec == Init /\ [][Next]_vars

(* Single runs of the sorting engines on longer arrays: the array has been *)
(* generated and the algorithm selected; a run is started once and may be  *)
(* stopped.                                                                *)
InitSort ==
  /\ page = "sorting"
  /\ limit = [len |-> MaxLen, vals |-> NumValues, runs |-> 1, edges |-> 0,
             lines |-> 0, rows |-> 0]
  /\ \E vals \in ArrayInputs :
       /\ heap = NewArray(vals)
       /\ array = [x \in DOMAIN vals |-> x]
  /\ algorithm \in SortingAlgorithm
  /\ speed = InitialSpeed
  /\ isRunning = FALSE
  /\ isRunningRef = FALSE
  /\ animationRef = {}
  /\ timeouts = {}
  /\ engines = <<>>
  /\ runs = 0
  /\ toasts = {}
  /\ phase = "idle"
  /\ input = <<>>
  /\ marked = {}
  /\ graph = <<>>
  /\ nodes = <<>>
  /\ edges = <<>>
  /\ startNode = ""
  /\ isDirected = FALSE
  /\ isWeighted = FALSE
  /\ traversalOrder = <<>>
  /\ insertions = <<>>

NextSort ==
  \/ startSorting
  \/ resolve
  \/ stopSorting

SpecSort == InitSort /\ [][NextSort]_vars

(* Single runs of the graph engines.  The Graph Model is one of a family   *)
(* over the ids of NodeIds, given as adjacency lines (one per id, in this  *)
(* order, each with at most one edge to every other id), or an example.    *)
(* BFS and DFS get every neighbour order and weight 1; Dijkstra and        *)
(* Bellman-Ford get neighbours in NodeIds order with weights drawn from    *)
(* DijkstraWeights and BellmanFordWeights.  The model is installed as      *)
(* assignments, so that weights the text parsers never produce occur too.  *)
NodeIds == <<"A", "2", "1">>
DijkstraWeights == {0, 1, 3}
BellmanFordWeights == {0 - 2, 1, 3}

Position(id) == CHOOSE x \in DOMAIN NodeIds : NodeIds[x] = id

NeighborLists(node, weights, anyOrder) ==
  LET others == Range(NodeIds) \ {node}
      entries == {[id |-> id, w |-> w] : id \in others, w \in weights}
  IN {l \in UNION {[1..k -> entries] : k \in 0..Cardinality(others)} :
        \A x, y \in DOMAIN l :
          x < y => /\ l[x].id # l[y].id
                   /\ anyOrder \/ Position(l[x].id) < Position(l[y].id)}

RECURSIVE CountEdges(_)
CountEdges(lines) ==
  IF lines = <<>> THEN 0 ELSE Len(Head(lines).nbrs) + CountEdges(Tail(lines))

RECURSIVE Adjacencies(_, _, _)
Adjacencies(k, weights, anyOrder) ==
  IF k = 0 THEN {<<>>}
  ELSE {Append(lines, [node |-> NodeIds[k], nbrs |-> l]) :
          <<lines, l>> \in
            {c \in Adjacencies(k - 1, weights, anyOrder)
                     \X NeighborLists(NodeIds[k], weights, anyOrder) :
               CountEdges(c[1]) + Len(c[2]) <= limit.edges}}

Adj(node, nbrs) == [node |-> node, nbrs |-> nbrs]
To(id, w) == [id |-> id, w |-> w]

BfsExample ==
  <<Adj("A", <<To("B", 1), To("C", 1)>>), Adj("B", <<To("A", 1), To("D", 1), To("E", 1)>>),
    Adj("C", <<To("A", 1), To("F", 1)>>), Adj("D", <<To("B", 1)>>),
    Adj("E", <<To("B", 1), To("F", 1)>>), Adj("F", <<To("C", 1), To("E", 1)>>)>>
DijkstraExample ==
  <<Adj("A", <<To("B", 1), To("C", 1)>>), Adj("B", <<To("C", 1)>>),
    Adj("C", <<To("D", 1)>>), Adj("D", <<To("A", 1)>>)>>
BellmanFordExample ==
  <<Adj("A", <<To("B", 1)>>), Adj("B", <<To("C", 0 - 3)>>), Adj("C", <<To("A", 1)>>)>>
SelfLoopExample == <<Adj("A", <<To("A", 0 - 1)>>)>>
DanglingExample == <<Adj("A", <<To("B", 1), To("C", 2)>>), Adj("C", <<To("B", 0)>>)>>
UnweightedDanglingExample == <<Adj("A", <<To("B", 1)>>)>>

GraphCases(alg) ==
  CASE alg \in {"bfs", "dfs"} ->
         Adjacencies(Len(NodeIds), {1}, TRUE) \cup {BfsExample, DanglingExample}
    [] alg = "dijkstra" ->
         Adjacencies(Len(NodeIds), DijkstraWeights, FALSE)
           \cup {DijkstraExample, DanglingExample, UnweightedDanglingExample}
    [] alg = "bellman-ford" ->
         Adjacencies(Len(NodeIds), BellmanFordWeights, FALSE)
           \cup {BellmanFordExample, SelfLoopExample, DanglingExample, DijkstraExample,
                 UnweightedDanglingExample}

InitGraph ==
  /\ page = "graph"
  /\ limit = [len |-> 0, vals |-> 0, runs |-> 1, edges |-> MaxEdges,
             lines |-> 0, rows |-> 0]
  /\ algorithm \in GraphAlgorithm
  /\ speed = InitialSpeed
  /\ isWeighted = (algorithm \in {"dijkstra", "bellman-ford"})
  /\ isDirected = isWeighted
  /\ insertions \in GraphCases(algorithm)
  /\ graph = GraphOf(<<>>, insertions)
  /\ startNode \in Range(ObjKeys(graph))
  /\ nodes = createVisualizationNodes(graph)
  /\ edges = createVisualizationEdges(graph)
  /\ traversalOrder = <<>>
  /\ heap = <<>>
  /\ array = <<>>
  /\ isRunning = FALSE
  /\ isRunningRef = FALSE
  /\ animationRef = {}
  /\ timeouts = {}
  /\ engines = <<>>
  /\ runs = 0
  /\ toasts = {}
  /\ phase = "idle"
  /\ input = <<>>
  /\ marked = {}

NextGraph ==
  \/ startVisualization
  \/ resolveGraph
  \/ stopVisualization

SpecGraph == InitGraph /\ [][NextGraph]_vars

(* The graph page's input side alone: texts are generated into graph       *)
(* models, the weighted switch is flipped and the start node selected.     *)
InitParse ==
  /\ page = "graph"
  /\ limit = [len |-> 0, vals |-> 0, runs |-> 1, edges |-> 0,
              lines |-> MaxLines, rows |-> MaxRows]
  /\ InitPage

NextParse ==
  \/ generateGraph
  \/ setIsWeighted
  \/ setStartNode

SpecParse == InitParse /\ [][NextParse]_vars

(* Single runs on either page at every speed level. *)
InitSpeed ==
  /\ page \in {"sorting", "graph"}
  /\ limit = [len |-> CtlLen, vals |-> 1, runs |-> 1, edges |-> 0,
              lines |-> 0, rows |-> 0]
  /\ InitPage

NextSpeed ==
  \/ setSpeed
  \/ Next

SpecSpeed == InitSpeed /\ [][NextSpeed]_vars

(* Single runs on either page that are never stopped: the timers are the  *)
(* browser's, and a timer that is set fires.                               *)
InitLive ==
  /\ page \in {"sorting", "graph"}
  /\ limit = [len |-> LiveLen, vals |-> LiveValues, runs |-> 1, edges |-> LiveEdges,
              lines |-> 0, rows |-> 0]
  /\ speed = InitialSpeed
  /\ algorithm \in (IF page = "sorting" THEN SortingAlgorithm ELSE GraphAlgorithm)
  /\ \E vals \in (IF page = "sorting" THEN ArrayInputs ELSE {<<>>}) :
       /\ heap = NewArray(vals)
       /\ array = [x \in DOMAIN vals |-> x]
  /\ isWeighted = (algorithm \in {"dijkstra", "bellman-ford"})
  /\ isDirected = isWeighted
  /\ insertions \in (IF page = "graph" THEN GraphCases(algorithm) ELSE {<<>>})
  /\ graph = GraphOf(<<>>, insertions)
  /\ startNode \in (IF page = "graph" THEN Range(ObjKeys(graph)) ELSE {""})
  /\ nodes = createVisualizationNodes(graph)
  /\ edges = createVisualizationEdges(graph)
  /\ traversalOrder = <<>>
  /\ isRunning = FALSE
  /\ isRunningRef = FALSE
  /\ animationRef = {}
  /\ timeouts = {}
  /\ engines = <<>>
  /\ runs = 0
  /\ toasts = {}
  /\ phase = "idle"
  /\ input = <<>>
  /\ marked = {}

NextLive ==
  \/ startSorting
  \/ resolve
  \/ startVisualization
  \/ resolveGraph

(* The browser fires a timeout that is set and not cleared: weak fairness *)
(* of the timeout steps, WF_vars(timeoutFires).  A timeout step is enabled *)
(* exactly when a timeout is pending, and the fairness condition is        *)
(* written with that state predicate in the place of ENABLED.              *)
timeoutFires == resolve \/ resolveGraph

timeoutPending == timeouts # {}

SpecLive ==
  /\ InitLive
  /\ [][NextLive]_vars
  /\ <>[]timeoutPending => []<><<timeoutFires>>_vars

(* ============================== properties ============================ *)
StoppedRuns == {r \in DOMAIN engines : engines[r].stopped}

(* C1: after stop is requested during a sorting or graph run, the stopped  *)
(* run publishes no further snapshot (array, node, edge or traversal-order *)
(* update) beyond at most one that was in flight: the count of publishes a *)
(* run made after it was stopped never exceeds one.                        *)
C1_NoPublishAfterStop == \A r \in StoppedRuns : engines[r].pubs <= 1

C1_Witness ==
  /\ page = "sorting"
  /\ phase = "stopped"
  /\ \E r \in StoppedRuns : engines[r].pubs = 0
  /\ \E x \in DOMAIN array : heap[array[x]].isSorted

(* C2: after stop, until the next start, no array element has compared or  *)
(* swapped set, no graph node has visited, current or inQueue set, no edge  *)
(* is highlighted and the traversal order is empty, whatever happens        *)
(* (timeouts, generating an array or a graph, changing the settings).       *)
C2_IdleAfterStop ==
  phase = "stopped" =>
    /\ \A x \in DOMAIN array : ~heap[array[x]].isCompared /\ ~heap[array[x]].isSwapped
    /\ \A x \in DOMAIN nodes : ~nodes[x].visited /\ ~nodes[x].current /\ ~nodes[x].inQueue
    /\ \A x \in DOMAIN edges : ~edges[x].highlighted
    /\ traversalOrder = <<>>

C2_Witness ==
  /\ page = "graph"
  /\ phase = "stopped"
  /\ algorithm = "dijkstra"
  /\ \E x \in DOMAIN nodes : nodes[x].distance = 1

(* C3: a suspension whose run was stopped still resolves, so no stopped    *)
(* run stays pending forever: every engine suspended in sleep() has a      *)
(* pending timeout that will resume it.                                    *)
C3_SuspensionResolves == \A r \in DOMAIN engines : engines[r].wait => r \in timeouts

(* C4: at most one engine run is active at any time: only the run started  *)
(* last can have a pending timeout, and a start is not taken while a run   *)
(* is active.                                                              *)
C4_SingleActiveRun ==
  /\ Cardinality(timeouts) <= 1
  /\ \A r \in timeouts : r = runs /\ isRunning /\ ~engines[r].stopped

C4_Witness ==
  /\ runs = 2
  /\ isRunning
  /\ timeouts = {2}
  /\ 1 \in StoppedRuns

(* C5: after a run is stopped, and in particular after a new run is        *)
(* started, the stopped run takes no step: its engine never resumes, so it *)
(* neither mutates the model, publishes a snapshot, nor (by returning into *)
(* its start handler) changes the token or the running flag.               *)
C5_StoppedRunIsInert ==
  [][\A r \in StoppedRuns : r \in DOMAIN engines' /\ engines'[r] = engines[r]]_vars

C5_Witness ==
  /\ page = "graph"
  /\ isRunning /\ isRunningRef
  /\ StoppedRuns # {}
  /\ traversalOrder # <<>>

Occurrences(s, v) == Cardinality({x \in DOMAIN s : s[x] = v})
IsPermutation(s, t) ==
  Len(s) = Len(t) /\ \A v \in Range(s) \cup Range(t) : Occurrences(s, v) = Occurrences(t, v)
NonDecreasing(s) == \A x, y \in DOMAIN s : x < y => s[x] <= s[y]

C7_SortedIsMonotone ==
  phase \in {"running", "completed"} =>
    \A x \in DOMAIN array : heap[array[x]].id \in marked => heap[array[x]].isSorted

C7_Witness ==
  /\ phase = "running"
  /\ algorithm = "merge"
  /\ marked # {}
  /\ \E x \in DOMAIN array : heap[array[x]].id \in marked /\ heap[array[x]].isSwapped

(* ------------------- reference notions on the Graph Model ------------- *)
Ids == Range(ObjKeys(graph)) \cup UNION {Range(ObjKeys(graph[x].val)) : x \in DOMAIN graph}
HasEdge(u, v) == ObjHas(graph, u) /\ ObjHas(ObjGet(graph, u), v)
Weight(u, v) == ObjGet(ObjGet(graph, u), v)

RECURSIVE Within(_)
Within(k) ==
  IF k = 0 THEN {startNode}
  ELSE LET near == Within(k - 1) IN near \cup {v \in Ids : \E u \in near : HasEdge(u, v)}
Reachable == Within(Cardinality(Ids))
Hops(v) == CHOOSE k \in 0..Cardinality(Ids) : v \in Within(k) /\ \A j \in 0..(k - 1) : v \notin Within(j)

SimplePaths ==
  {p \in UNION {[1..k -> Ids] : k \in 1..Cardinality(Ids)} :
     /\ \A x, y \in DOMAIN p : x < y => p[x] # p[y]
     /\ \A x \in 1..(Len(p) - 1) : HasEdge(p[x], p[x + 1])}
RECURSIVE Cost(_)
Cost(p) == IF Len(p) <= 1 THEN 0 ELSE Weight(p[1], p[2]) + Cost(Tail(p))
Least(S) == CHOOSE a \in S : \A b \in S : a <= b
ShortestDistance(v) ==
  LET costs == {Cost(p) : p \in {q \in SimplePaths : q[1] = startNode /\ q[Len(q)] = v}}
  IN IF costs = {} THEN Undefined ELSE Least(costs)
NegativeCycleReachable ==
  \E p \in SimplePaths :
    /\ p[1] \in Reachable
    /\ HasEdge(p[Len(p)], p[1])
    /\ Cost(p) + Weight(p[Len(p)], p[1]) < 0

(* The neighbours of v in the order the adjacency lines name them. *)
RECURSIVE InsertedNeighbors(_, _)
InsertedNeighbors(lines, v) ==
  IF lines = <<>> THEN <<>>
  ELSE (IF Head(lines).node = v
        THEN [x \in DOMAIN Head(lines).nbrs |-> Head(lines).nbrs[x].id]
        ELSE <<>>) \o InsertedNeighbors(Tail(lines), v)

(* Level order from the start with neighbours in insertion order. *)
RECURSIVE LevelOrder(_, _)
LevelOrder(queue, order) ==
  IF queue = <<>> THEN order
  ELSE LET v == Head(queue)
           rest == Tail(queue)
           New(n) == n # v /\ n \notin Range(order) /\ n \notin Range(rest)
       IN LevelOrder(rest \o Dedup(SelectSeq(InsertedNeighbors(insertions, v), New), {}),
                     Append(order, v))

(* C8: BFS's traversal order lists every node reachable from the start     *)
(* exactly once, in level order (non-decreasing hop distance), with the    *)
(* neighbours of a node taken in the order they were inserted into the     *)
(* model; on the graph A:B,C; B:A,D,E; C:A,F; D:B; E:B,F; F:C,E from A it  *)
(* is A,B,C,D,E,F.                                                         *)
C8_BfsLevelOrder ==
  (phase = "completed" /\ algorithm = "bfs") =>
    /\ Range(traversalOrder) = Reachable
    /\ \A x, y \in DOMAIN traversalOrder :
         x < y => /\ traversalOrder[x] # traversalOrder[y]
                  /\ Hops(traversalOrder[x]) <= Hops(traversalOrder[y])
    /\ traversalOrder = LevelOrder(<<startNode>>, <<>>)
    /\ (insertions = BfsExample /\ startNode = "A")
         => traversalOrder = <<"A", "B", "C", "D", "E", "F">>

(* C9: for every graph model with non-negative weights and every start     *)
(* node, when Dijkstra completes each node's distance is its shortest-path *)
(* distance from the start, or unreached when there is no path; for        *)
(* A->B(1), B->C(1), C->D(1), D->A(1), A->C(1) from A the distances are    *)
(* A:0, B:1, C:1, D:2.                                                     *)
C9_DijkstraDistances ==
  (/\ phase = "completed" /\ algorithm = "dijkstra"
   /\ \A x \in DOMAIN edges : Weight(edges[x].from, edges[x].to) >= 0) =>
    /\ \A x \in DOMAIN nodes : nodes[x].distance = ShortestDistance(nodes[x].id)
    /\ (insertions = DijkstraExample /\ startNode = "A")
         => [x \in DOMAIN nodes |-> <<nodes[x].id, nodes[x].distance>>]
              = << <<"A", 0>>, <<"B", 1>>, <<"C", 1>>, <<"D", 2>> >>

C9_Witness ==
  /\ phase = "completed" /\ algorithm = "dijkstra"
  /\ startNode = "A"
  /\ HasEdge("A", "1") /\ Weight("A", "1") = 3
  /\ \E x \in DOMAIN nodes : nodes[x].id = "1" /\ nodes[x].distance = 1

(* C10: Bellman-Ford reports the negative cycle exactly when a cycle of    *)
(* negative total weight is reachable from the start node; for A->B(1),    *)
(* B->C(-3), C->A(1) from A it reports it.                                 *)
C10_NegativeCycleReported ==
  (phase = "completed" /\ algorithm = "bellman-ford") =>
    /\ ("negative-cycle" \in toasts) <=> NegativeCycleReachable
    /\ (insertions = BellmanFordExample /\ startNode = "A") => "negative-cycle" \in toasts

C10_Witness ==
  /\ phase = "completed" /\ algorithm = "bellman-ford"
  /\ insertions = BellmanFordExample /\ startNode = "A"
  /\ "negative-cycle" \in toasts

RECURSIVE FinishGraph(_)
FinishGraph(w) ==
  IF w.timeouts = {} THEN w
  ELSE FinishGraph(resolveGraphBody(w, CHOOSE r \in w.timeouts : TRUE))

RunGraphToEnd(w) == FinishGraph(startVisualizationBody(w))

RECURSIVE FinishSort(_)
FinishSort(w) ==
  IF w.timeouts = {} THEN w
  ELSE FinishSort(resolveBody(w, CHOOSE r \in w.timeouts : TRUE))

(* The values vals loaded as a new array in state w, and the run on them. *)
RunSortToEnd(w, vals) ==
  FinishSort(startSortingBody(
    [w EXCEPT !.heap = w.heap \o NewArray(vals),
              !.array = [x \in DOMAIN vals |-> Len(w.heap) + x]]))

(* C12: from every state in which a run can be started, running the same   *)
(* graph algorithm twice in sequence on the same graph model, start node   *)
(* and directedness yields identical traversal orders, and running the     *)
(* same sorting variant twice on the same input values yields identical    *)
(* final sequences of values.                                              *)
C12_RerunIsIdentical ==
  ~isRunning =>
    /\ (page = "graph" /\ Len(nodes) # 0) =>
         LET first == RunGraphToEnd(GraphWorld)
             second == RunGraphToEnd(first)
         IN second.traversalOrder = first.traversalOrder
    /\ (page = "sorting" /\ Len(array) # 0) =>
         LET vals == ValuesOf(heap, array)
             first == RunSortToEnd(World, vals)
             second == RunSortToEnd(first, vals)
         IN ValuesOf(second.heap, second.array) = ValuesOf(first.heap, first.array)

C12_Witness ==
  /\ page = "graph" /\ phase = "completed" /\ algorithm = "dfs"
  /\ runs = 2 /\ StoppedRuns = {}
  /\ Len(traversalOrder) >= 2
  /\ RunGraphToEnd(GraphWorld).traversalOrder = traversalOrder

Malformed(inputText) == \E x \in DOMAIN inputText : inputText[x].parts # 2

(* C13: generating a graph from adjacency-list text in which some line     *)
(* does not split into exactly two colon-delimited parts fails, and leaves *)
(* the graph model, the nodes, the edges and the start node as they were.  *)
C13_MalformedListRejected ==
  \A inputText \in ListTexts :
    Malformed(inputText) =>
      LET w == generateGraphBody("adjacency-list", inputText)
      IN /\ w.toasts = {"parse-error"}
         /\ w.graph = graph /\ w.nodes = nodes /\ w.edges = edges
         /\ w.startNode = startNode

C13_Witness ==
  /\ toasts = {"parse-error"}
  /\ Len(graph) >= 2 /\ Len(edges) >= 1
  /\ startNode = graph[2].key

(* C14: when start is requested with an empty array (sorting), or with no  *)
(* start node selected or an empty graph model (graph), the run does not   *)
(* start: the token stays inactive, the running flag stays false, and the  *)
(* array, the nodes, the edges and the traversal order do not change.      *)
C14_MissingPreconditionNoRun ==
  /\ (page = "sorting" /\ ~isRunning /\ Len(array) = 0) =>
       LET w == startSortingBody(World)
       IN /\ ~w.isRunningRef /\ ~w.isRunning
          /\ w.runs = runs /\ w.engines = engines /\ w.timeouts = timeouts
          /\ w.heap = heap /\ w.array = array
          /\ w.toasts = {"error"}
  /\ (page = "graph" /\ ~isRunning /\ (startNode = "" \/ Len(graph) = 0)) =>
       LET w == startVisualizationBody(GraphWorld)
       IN /\ ~w.isRunningRef /\ ~w.isRunning
          /\ w.runs = runs /\ w.engines = engines /\ w.timeouts = timeouts
          /\ w.nodes = nodes /\ w.edges = edges /\ w.traversalOrder = traversalOrder
          /\ w.toasts = {"error"}

C14_Witness ==
  /\ page = "graph" /\ toasts = {"error"}
  /\ startNode = "" /\ Len(nodes) > 0
  /\ ~isRunning /\ ~isRunningRef /\ runs = 0

(* C15: for every speed level s in 1..10 the suspension lasts              *)
(* 1100 - 100*s milliseconds, which lies in 100..1000 and strictly         *)
(* decreases in s, and every pending suspension of a sorting or graph      *)
(* engine was armed with that delay for the speed level in force.          *)
C15_DelayFormula ==
  /\ \A s \in SpeedLevels :
       /\ 1100 - 100 * s \in 100..1000
       /\ s < MaxSpeed => 1100 - 100 * (s + 1) < 1100 - 100 * s
  /\ speed \in SpeedLevels
  /\ \A r \in timeouts : engines[r].ms = 1100 - 100 * speed /\ engines[r].ms \in 100..1000

C15_Witness ==
  /\ page = "graph" /\ speed = MaxSpeed
  /\ \E r \in timeouts : engines[r].ms = 100

(* C16: within one run the traversal order is published in the order the   *)
(* algorithm produces it: the start handler shows the empty order and the  *)
(* engine's first step at most one id, and every later publish of the run  *)
(* is the previously published order with exactly one node id appended.    *)
C16_OrderGrowsByOne ==
  [][/\ (runs' # runs) => Len(traversalOrder') <= 1
     /\ (runs' = runs /\ phase' # "stopped" /\ traversalOrder' # traversalOrder) =>
          \E id \in Ids : traversalOrder' = Append(traversalOrder, id)]_vars

C16_Witness ==
  /\ phase = "running" /\ algorithm = "bellman-ford"
  /\ Len(traversalOrder) >= 2

(* C17: a published array snapshot is immutable: no engine action after    *)
(* the publish alters what the array held by the renderer contains.        *)
C17_SnapshotImmutable == \A r \in DOMAIN engines : ~engines[r].altered


(* C18: at start the controller resets the run state before the engine's   *)
(* first step: every element of the array has compared, swapped and sorted *)
(* cleared, every node has visited, current and inQueue cleared, no edge   *)
(* is highlighted and the traversal order is empty, whatever an earlier    *)
(* run left behind.                                                        *)
C18_StartResetsRunState ==
  /\ (page = "sorting" /\ ~isRunning /\ Len(array) # 0) =>
       LET w == startSortingSetup(World)
       IN \A x \in DOMAIN w.array :
            /\ ~w.heap[w.array[x]].isCompared
            /\ ~w.heap[w.array[x]].isSwapped
            /\ ~w.heap[w.array[x]].isSorted
  /\ (page = "graph" /\ ~isRunning /\ Len(nodes) # 0 /\ startNode # "") =>
       LET w == startVisualizationSetup(GraphWorld)
       IN /\ \A x \in DOMAIN w.nodes :
               ~w.nodes[x].visited /\ ~w.nodes[x].current /\ ~w.nodes[x].inQueue
          /\ \A x \in DOMAIN w.edges : ~w.edges[x].highlighted
          /\ w.traversalOrder = <<>>


(* C19: when an engine finishes, the controller deactivates the token and  *)
(* clears the running flag, and leaves the model exactly as the engine     *)
(* last published it.  The engines that finish in the next task are the    *)
(* one a Start would call and those a pending timeout resumes.             *)
FinishingSort ==
  { m \in (IF page = "sorting" /\ ~isRunning /\ Len(array) # 0
           THEN {startSortingEngine(World)} ELSE {})
          \cup (IF page = "sorting" THEN {resolveEngine(World, r) : r \in timeouts}
                ELSE {}) : m.stack = <<>> }
FinishingGraph ==
  { m \in (IF page = "graph" /\ ~isRunning /\ Len(nodes) # 0 /\ startNode # ""
           THEN {startVisualizationEngine(GraphWorld)} ELSE {})
          \cup (IF page = "graph" THEN {resolveGraphEngine(GraphWorld, r) : r \in timeouts}
                ELSE {}) : m.stack = <<>> }
C19_FinishLeavesModel ==
  /\ \A m \in FinishingSort :
       LET d == startSortingDone(m)
       IN /\ ~d.isRunningRef /\ ~d.isRunning
          /\ d.array = m.array
          /\ ContentsOf(d.heap, d.array) = m.shown
  /\ \A m \in FinishingGraph :
       LET d == startVisualizationDone(m)
       IN /\ ~d.isRunningRef /\ ~d.isRunning
          /\ d.nodes = m.nodes /\ d.edges = m.edges
          /\ d.traversalOrder = m.traversalOrder

C19_Witness ==
  /\ page = "sorting" /\ phase = "running"
  /\ \E m \in FinishingSort : m.altered /\ Len(m.array) >= 2 /\ m.pubs = 0


(* C20: an adjacency-matrix text in which some row has a different number  *)
(* of columns than the header has labels is rejected with a format error,  *)
(* and no graph model is installed for it.                                 *)
Ragged(inputText) ==
  \E x \in DOMAIN inputText.rows : Len(inputText.rows[x]) # Len(inputText.labels)
C20_RaggedMatrixRejected ==
  \A inputText \in MatrixTexts :
    Ragged(inputText) =>
      LET w == generateGraphBody("adjacency-matrix", inputText)
      IN /\ w.toasts = {"parse-error"}
         /\ w.graph = graph /\ w.nodes = nodes /\ w.edges = edges
         /\ w.startNode = startNode


(* C21: in every engine, after each wait returns the token is read before  *)
(* the engine next writes to the model or publishes a snapshot.            *)
C21_TokenCheckedAfterWait ==
  /\ page = "sorting" => \A r \in timeouts : ~resolveEngine(World, r).blind
  /\ page = "graph" => \A r \in timeouts : ~resolveGraphEngine(GraphWorld, r).blind


(* C22: once a sorting engine has read the token inactive it returns       *)
(* without completing: nothing later in its loops, its recursive calls or  *)
(* its sibling calls writes to the array, marks an element sorted or       *)
(* publishes.  Each suspended engine is resumed with the token inactive    *)
(* and followed through its awaits until its outermost call returns.       *)
Cancelled(w) == [w EXCEPT !.isRunningRef = FALSE]

RECURSIVE UnwindSort(_)
UnwindSort(m) ==
  IF m.stack = <<>> THEN m ELSE UnwindSort(RunSort(StepSort([m EXCEPT !.wait = FALSE])))

C23_FlagsAreTransient ==
  (page = "sorting" /\ phase = "completed" /\ ~isRunning) =>
    \A x \in DOMAIN array : ~heap[array[x]].isCompared /\ ~heap[array[x]].isSwapped


(* C24: in merge sort and quick sort no element is marked sorted before    *)
(* the top-level call finishes, and when it has finished without           *)
(* cancellation every element of the array is marked sorted, for every     *)
(* array of one or more elements.                                          *)
C24_TopLevelMarksSorted ==
  (page = "sorting" /\ algorithm \in {"merge", "quick"}) =>
    /\ phase = "running" => \A x \in DOMAIN array : ~heap[array[x]].isSorted
    /\ (phase = "completed" /\ ~isRunning) =>
         \A x \in DOMAIN array : heap[array[x]].isSorted


(* C25: merge sort is stable: in the final array of a completed run,       *)
(* elements of equal value are in the relative order they had in the       *)
(* input (the history field id is an element's index in the input).        *)
C25_MergeSortIsStable ==
  (page = "sorting" /\ algorithm = "merge" /\ phase = "completed") =>
    \A x, y \in DOMAIN array :
      (x < y /\ heap[array[x]].value = heap[array[y]].value) =>
        heap[array[x]].id < heap[array[y]].id

C25_Witness ==
  /\ page = "sorting" /\ algorithm = "merge" /\ phase = "completed"
  /\ Len(input) >= 3
  /\ input[1] > input[2] /\ input[2] = input[3]
  /\ heap[array[1]].id = 2 /\ heap[array[2]].id = 3 /\ heap[array[3]].id = 1


(* C26: in bubble sort, after outer pass i exactly the element at index    *)
(* n - i - 1 is newly marked sorted, index 0 is marked only after the      *)
(* final pass, and an array of length 1 has its element marked: while the  *)
(* run is suspended in pass i the marked indices are exactly n - i .. n -  *)
(* 1, and after the run all indices are marked.                            *)
C26_BubblePassMarksLast ==
  (page = "sorting" /\ algorithm = "bubble") =>
    /\ \A r \in timeouts :
         LET e == engines[r]
             n == Len(e.arr)
             i == e.stack[1].i
         IN \A x \in 0..(n - 1) : heap[e.arr[x + 1]].isSorted <=> x >= n - i
    /\ (phase = "completed" /\ ~isRunning) =>
         \A x \in DOMAIN array : heap[array[x]].isSorted

C26_Witness ==
  /\ page = "sorting" /\ algorithm = "bubble" /\ phase = "running"
  /\ Len(array) >= 3
  /\ \E r \in timeouts : engines[r].stack[1].i = 1
  /\ heap[array[Len(array)]].isSorted /\ ~heap[array[Len(array) - 1]].isSorted


(* C27: every partition of quick sort takes the last element of its range  *)
(* as pivot, moves only elements strictly less than the pivot left of the  *)
(* swap index, and always ends with a pivot-placement swap that is         *)
(* published as a step, also when the pivot is swapped with itself.        *)
(* A quick-sort run is suspended only inside partition.  In every such     *)
(* state the indices low .. i hold values below the pivot's; before the    *)
(* placement the pivot is at index high; in the placement step it is at    *)
(* index i + 1 with both swapped elements flagged, the values right of it  *)
(* are not below it, and the array shown is the engine's.  A partition     *)
(* whose run goes on ends only from its placement step.                    *)
PartitionPlaced(e) ==
  LET f == e.stack[Len(e.stack)]
      pv == heap[f.pivot].value
  IN /\ e.arr[f.i + 2] = f.pivot
     /\ heap[e.arr[f.i + 2]].isSwapped /\ heap[e.arr[f.high + 1]].isSwapped
     /\ \A x \in (f.i + 2)..f.high : heap[e.arr[x + 1]].value >= pv
     /\ array = e.arr

PartitionState ==
  (page = "sorting" /\ algorithm = "quick") =>
    \A r \in timeouts :
      LET e == engines[r]
          f == e.stack[Len(e.stack)]
      IN /\ f.fn = "partition"
         /\ f.pc # "placed" => e.arr[f.high + 1] = f.pivot
         /\ f.pc # "init" =>
              \A x \in f.low..f.i : heap[e.arr[x + 1]].value < heap[f.pivot].value
         /\ f.pc = "placed" => PartitionPlaced(e)

PartitionEnds ==
  (page = "sorting" /\ algorithm = "quick") =>
    \A r \in timeouts :
      (phase' = "stopped" \/ engines[r].stack[Len(engines[r].stack)].pc = "placed") \/
        /\ r \in timeouts'
        /\ Len(engines'[r].stack) = Len(engines[r].stack)
        /\ LET f == engines[r].stack[Len(engines[r].stack)]
               g == engines'[r].stack[Len(engines'[r].stack)]
           IN g.low = f.low /\ g.high = f.high

C27_PartitionPlacesPivot == []PartitionState /\ [][PartitionEnds]_vars

C27_Witness ==
  /\ page = "sorting" /\ algorithm = "quick" /\ phase = "running"
  /\ \E r \in timeouts :
       LET f == engines[r].stack[Len(engines[r].stack)]
       IN f.pc = "placed" /\ f.i + 1 = f.high /\ f.high - f.low >= 2


(* C28: throughout BFS the queue never holds the same node twice and never *)
(* holds a visited node: a node is marked visited when it is dequeued, not *)
(* when it is enqueued, and every node dequeued is unvisited.              *)
C28_BfsQueueIsFresh ==
  (page = "graph" /\ algorithm = "bfs") =>
    \A r \in timeouts :
      LET e == engines[r]
      IN /\ \A x, y \in DOMAIN e.queue : e.queue[x] = e.queue[y] => x = y
         /\ Range(e.queue) \cap e.visited = {}
         /\ e.visited = Range(e.order)
         /\ \A x \in DOMAIN nodes : nodes[x].visited => nodes[x].id \in e.visited

C28_Witness ==
  /\ page = "graph" /\ algorithm = "bfs" /\ phase = "running"
  /\ \E r \in timeouts :
       /\ Len(engines[r].queue) >= 2
       /\ Len(engines[r].order) >= 1
       /\ \E x \in DOMAIN nodes : nodes[x].inQueue /\ ~nodes[x].visited


(* Pre-order from v with neighbours in insertion order. *)
RECURSIVE PreOrder(_, _)
RECURSIVE VisitAll(_, _)
PreOrder(v, order) ==
  IF v \in Range(order) THEN order
  ELSE VisitAll(Dedup(InsertedNeighbors(insertions, v), {}), Append(order, v))
VisitAll(ns, order) ==
  IF ns = <<>> THEN order ELSE VisitAll(Tail(ns), PreOrder(Head(ns), order))

(* C29: DFS records every node reachable from the start exactly once and   *)
(* no other node, in call-entry (pre-order) order with the neighbours of a *)
(* node taken in the order they were inserted into the model.              *)
C29_DfsPreOrder ==
  (page = "graph" /\ phase = "completed" /\ algorithm = "dfs") =>
    /\ Range(traversalOrder) = Reachable
    /\ \A x, y \in DOMAIN traversalOrder :
         x < y => traversalOrder[x] # traversalOrder[y]
    /\ traversalOrder = PreOrder(startNode, <<>>)


(* C30: once the token is inactive DFS visits nothing further: every frame *)
(* of the call stack returns without adding a node to the visited set or   *)
(* to the traversal order and without recursing into another neighbour.    *)
(* Each suspended DFS is resumed with the token inactive: the whole stack  *)
(* unwinds in that task, with no further await, and the visited set, the   *)
(* order and what is shown of both are as they were.                       *)
C30_CancelledDfsUnwinds ==
  (page = "graph" /\ algorithm = "dfs") =>
    \A r \in timeouts :
      LET e == engines[r]
          m == resolveGraphEngine(Cancelled(GraphWorld), r)
      IN /\ m.stack = <<>> /\ ~m.wait
         /\ m.visited = e.visited /\ m.order = e.order
         /\ m.traversalOrder = traversalOrder
         /\ \A x \in DOMAIN nodes : m.nodes[x].visited = nodes[x].visited

C30_Witness ==
  /\ page = "graph" /\ algorithm = "dfs" /\ phase = "running"
  /\ \E r \in timeouts :
       /\ Len(engines[r].stack) >= 2
       /\ Reachable \ engines[r].visited # {}
       /\ resolveGraphEngine(GraphWorld, r).order # engines[r].order


(* C31: each Dijkstra step visits the unvisited node of minimum finite     *)
(* tentative distance, the first in the model's iteration order on ties,   *)
(* and the run ends as soon as no unvisited node has a finite distance:    *)
(* nodes unreachable from the start are never visited and never appear in  *)
(* the traversal order, and a visited node's distance never changes.       *)
KeyIndex(id) == CHOOSE x \in DOMAIN ObjKeys(graph) : ObjKeys(graph)[x] = id

DijkstraStep ==
  (page = "graph" /\ algorithm = "dijkstra") =>
    /\ \A r \in timeouts :
         LET e == engines[r]
             f == e.stack[Len(e.stack)]
             d == e.distances
         IN /\ e.visited = Range(e.order)
            /\ \A x, y \in DOMAIN e.order : e.order[x] = e.order[y] => x = y
            /\ e.visited \subseteq Reachable
            /\ e.order = traversalOrder
            /\ \A v \in e.visited : d[v] # Infinity
            /\ f.pc = "after_visit" =>
                 \A x \in DOMAIN e.unvisited :
                   LET u == e.unvisited[x]
                   IN \/ d[f.current] < d[u]
                      \/ d[f.current] = d[u] /\ KeyIndex(f.current) < KeyIndex(u)
    /\ (phase = "completed" /\ ~isRunning) =>
         /\ Range(traversalOrder) \subseteq Reachable
         /\ \A x \in DOMAIN nodes :
              /\ nodes[x].visited <=> nodes[x].id \in Range(traversalOrder)
              /\ ~nodes[x].visited => nodes[x].distance = Undefined

DijkstraSettled ==
  (page = "graph" /\ algorithm = "dijkstra") =>
    \A r \in timeouts :
      \A v \in engines[r].visited :
        /\ r \in timeouts' => engines'[r].distances[v] = engines[r].distances[v]
        /\ phase' = "completed" =>
             \A x \in DOMAIN nodes' :
               nodes'[x].id = v => nodes'[x].distance = engines[r].distances[v]

C31_DijkstraVisitsNearest == []DijkstraStep /\ [][DijkstraSettled]_vars

C31_Witness ==
  /\ page = "graph" /\ algorithm = "dijkstra" /\ phase = "running"
  /\ \E r \in timeouts :
       LET e == engines[r]
           f == e.stack[Len(e.stack)]
       IN /\ f.pc = "after_visit" /\ Len(e.order) >= 2
          /\ \E x \in DOMAIN e.unvisited :
               e.distances[e.unvisited[x]] = e.distances[f.current]


(* Bellman-Ford's relaxations as a function of the distances: the edges   *)
(* of `from` in key order, the nodes in key order, and a fixed number of  *)
(* rounds with no early end.                                               *)
RECURSIVE RelaxEdges(_, _, _)
RelaxEdges(d, from, tos) ==
  IF tos = <<>> THEN d
  ELSE LET to == Head(tos)
           newDistance == d[from] + Weight(from, to)
       IN RelaxEdges(IF to \in DOMAIN d /\ newDistance < d[to]
                     THEN [d EXCEPT ![to] = newDistance] ELSE d,
                     from, Tail(tos))

RECURSIVE RelaxRound(_, _)
RelaxRound(d, froms) ==
  IF froms = <<>> THEN d
  ELSE RelaxRound(IF d[Head(froms)] # Infinity
                  THEN RelaxEdges(d, Head(froms), ObjKeys(ObjGet(graph, Head(froms))))
                  ELSE d,
                  Tail(froms))

RECURSIVE RelaxRounds(_, _)
RelaxRounds(d, k) ==
  IF k <= 0 THEN d ELSE RelaxRounds(RelaxRound(d, ObjKeys(graph)), k - 1)

(* Dijkstra run to its end from the state w, on the graph and start node  *)
(* of w.                                                                   *)
DijkstraFrom(w) ==
  LET w1 == startVisualizationSetup(w)
      e == NewGraphEngine(GraphEntryFrame("dijkstra"))
  IN FinishGraph(UnloadGraph(startVisualizationDone(RunGraph(LoadGraph(w1, w1.runs, e)))))

(* C32: for every graph model with no negative cycle reachable from the    *)
(* start, when Bellman-Ford completes each node's distance is its true     *)
(* shortest-path distance from the start; on non-negative weights it is    *)
(* the distance Dijkstra computes; and it is the distance that all         *)
(* |V|-1 rounds give, so ending after a round with no relaxation does not  *)
(* change it.                                                              *)
C32_BellmanFordDistances ==
  (/\ phase = "completed" /\ algorithm = "bellman-ford"
   /\ ~NegativeCycleReachable) =>
    /\ \A x \in DOMAIN nodes : nodes[x].distance = ShortestDistance(nodes[x].id)
    /\ (\A x \in DOMAIN edges : Weight(edges[x].from, edges[x].to) >= 0) =>
         LET dijkstraNodes == DijkstraFrom(GraphWorld).nodes
         IN \A x \in DOMAIN nodes : nodes[x].distance = dijkstraNodes[x].distance
    /\ LET full == RelaxRounds(InitialDistances(startNode), Len(ObjKeys(graph)) - 1)
       IN \A x \in DOMAIN nodes : nodes[x].distance = Shown(full[nodes[x].id])

C32_Witness ==
  /\ phase = "completed" /\ algorithm = "bellman-ford"
  /\ ~NegativeCycleReachable
  /\ Len(traversalOrder) = 3
  /\ \E x \in DOMAIN nodes : nodes[x].distance < 0 /\ nodes[x].distance # Undefined
  /\ \A x \in DOMAIN nodes : nodes[x].distance # Undefined


(* C33: Bellman-Ford's traversal order never contains a node id twice,     *)
(* across any number of rounds, and after a completed run it contains each *)
(* source node processed in a round exactly once, in node order.           *)
NoNodeTwice(order) == \A x, y \in DOMAIN order : order[x] = order[y] => x = y

C33_BellmanFordOrder ==
  (page = "graph" /\ algorithm = "bellman-ford") =>
    /\ NoNodeTwice(traversalOrder)
    /\ \A r \in timeouts :
         /\ NoNodeTwice(engines[r].order)
         /\ engines[r].order = traversalOrder
         /\ traversalOrder = SubSeq(ObjKeys(graph), 1, Len(traversalOrder))
    /\ phase = "completed" =>
         traversalOrder = IF relaxationRounds(ObjKeys(graph)) >= 1
                          THEN ObjKeys(graph) ELSE <<>>

C33_Witness ==
  /\ page = "graph" /\ algorithm = "bellman-ford" /\ phase = "running"
  /\ \E r \in timeouts :
       LET f == engines[r].stack[Len(engines[r].stack)]
       IN f.fn = "bellmanFord" /\ f.i = 1 /\ f.pc = "relax"
  /\ Len(traversalOrder) = 3


(* BFS run to its end from the state w, on the graph and start node of w. *)
BfsFrom(w) ==
  LET w1 == startVisualizationSetup(w)
      e == NewGraphEngine(GraphEntryFrame("bfs"))
  IN FinishGraph(UnloadGraph(startVisualizationDone(RunGraph(LoadGraph(w1, w1.runs, e)))))

(* The distance shown for the id v; undefined when no node carries it. *)
DisplayedDistance(v) ==
  IF \E x \in DOMAIN nodes : nodes[x].id = v
  THEN nodes[CHOOSE x \in DOMAIN nodes : nodes[x].id = v].distance
  ELSE Undefined

Unweighted == \A u, v \in Ids : HasEdge(u, v) => Weight(u, v) = 1

(* C34: on an unweighted graph (every stored weight is 1) the final        *)
(* distances of Dijkstra and of Bellman-Ford equal the BFS hop count from  *)
(* the start for every reachable node, and the set of nodes they reach is  *)
(* the set of nodes BFS visits.                                            *)
C34_UnweightedAgreesWithBfs ==
  (/\ page = "graph" /\ phase = "completed"
   /\ algorithm \in {"dijkstra", "bellman-ford"}
   /\ Unweighted) =>
    /\ \A v \in Reachable : DisplayedDistance(v) = Hops(v)
    /\ {v \in Ids : DisplayedDistance(v) # Undefined}
         = Range(BfsFrom(GraphWorld).traversalOrder)


(* C35: every run that is never stopped terminates.  While it runs,        *)
(* Bellman-Ford is within its |V|-1 relaxation rounds or in its check      *)
(* pass, and Dijkstra and BFS have visited no node twice; with timers that *)
(* fire, every started run reaches its end, where the token is inactive,   *)
(* the running flag is false and nothing is pending.                       *)
RunBounded ==
  \A r \in timeouts :
    LET e == engines[r]
        f == e.stack[Len(e.stack)]
    IN /\ (page = "graph" /\ f.fn = "bellmanFord") =>
            /\ f.i < Len(ObjKeys(graph)) - 1
            /\ f.fi < Len(ObjKeys(graph))
       /\ (page = "graph" /\ f.fn \in {"dijkstra", "bfs"}) =>
            /\ NoNodeTwice(e.order)
            /\ Len(e.order) <= Cardinality(Ids)

RunEnded ==
  /\ ~isRunning /\ ~isRunningRef
  /\ timeouts = {} /\ animationRef = {}
  /\ DOMAIN engines = {}
  /\ phase = "completed"

(* A pending timeout can fire, and its step changes the state. *)
TimeoutCanFire ==
  \A r \in timeouts :
    /\ page = "sorting" => resolveBody(World, r) # World
    /\ page = "graph" => resolveGraphBody(GraphWorld, r) # GraphWorld

C35_RunsTerminate == [](RunBounded /\ TimeoutCanFire) /\ (isRunning ~> RunEnded)

C35_Witness ==
  /\ RunEnded
  /\ page = "graph" /\ algorithm = "bellman-ford"
  /\ "negative-cycle" \in toasts
  /\ Len(traversalOrder) = 3


(* C36: in every published array snapshot of every sorting variant,        *)
(* including the array left displayed after a stop at any point, the       *)
(* multiset of values is the multiset of the run's input values.           *)
C36_SnapshotKeepsValues ==
  (page = "sorting" /\ phase \in {"running", "stopped", "completed"}) =>
    IsPermutation(ValuesOf(heap, array), input)


(* The values of s in non-decreasing order. *)
SortedValues(s) ==
  CHOOSE t \in [DOMAIN s -> Range(s)] : NonDecreasing(t) /\ IsPermutation(t, s)

(* C37: in every published snapshot of a sorting run that started from an  *)
(* array with no sorted flags, each element marked sorted sits at the      *)
(* index it occupies in the fully sorted array, and is never moved or      *)
(* overwritten afterwards.                                                 *)
MarkedInPlace ==
  (page = "sorting" /\ phase \in {"running", "stopped", "completed"}) =>
    \A x \in DOMAIN array :
      heap[array[x]].isSorted => heap[array[x]].value = SortedValues(input)[x]

MarkedStays ==
  (page = "sorting" /\ phase = "running") =>
    \A x \in DOMAIN array :
      heap[array[x]].isSorted =>
        /\ x \in DOMAIN array'
        /\ heap'[array'[x]].id = heap[array[x]].id
        /\ heap'[array'[x]].value = heap[array[x]].value

C37_MarkedSortedIsFinal == []MarkedInPlace /\ [][MarkedStays]_vars

C37_Witness ==
  /\ page = "sorting" /\ phase = "running"
  /\ algorithm \in {"bubble", "selection"}
  /\ \E x \in DOMAIN array : heap[array[x]].isSorted /\ heap[array[x]].id # x
  /\ \E x, y \in DOMAIN array :
       /\ ~heap[array[x]].isSorted /\ ~heap[array[y]].isSorted
       /\ x < y /\ heap[array[x]].value > heap[array[y]].value


(* C38: no graph engine step, start or stop changes the Graph Model (its   *)
(* node ids, adjacency or weights): across runs, stops and restarts the    *)
(* model, and the ids, endpoints and weights of the node and edge          *)
(* collections built from it, stay as the last generation left them.  A    *)
(* step of a run is a step taken while the running flag is set, or one     *)
(* that starts a run.                                                      *)
ShownIds(ns) == [x \in DOMAIN ns |-> ns[x].id]
ShownWeights(es) == [x \in DOMAIN es |-> <<es[x].from, es[x].to, es[x].weight>>]

RunStep == page = "graph" /\ (isRunning \/ runs' # runs)

GraphKept ==
  RunStep =>
    /\ graph' = graph
    /\ ShownIds(nodes') = ShownIds(nodes)
    /\ ShownWeights(edges') = ShownWeights(edges)

GraphOnlyGenerated ==
  graph' # graph =>
    /\ ~isRunning /\ ~isRunning'
    /\ runs' = runs /\ timeouts' = timeouts /\ engines' = engines

C38_RunsKeepGraphModel == [][GraphKept /\ GraphOnlyGenerated]_vars

C38_Witness ==
  /\ page = "graph" /\ phase = "running"
  /\ runs = 2 /\ StoppedRuns # {}
  /\ Len(graph) >= 2 /\ Len(edges) >= 1
  /\ \E x \in DOMAIN edges : edges[x].highlighted

====
